---- MODULE Spec2Model ----
(***************************************************************************)
(* The activation loop of the `up` command (cmd/up.go: RunUp, Activate,    *)
(* devMode, sync, cleanCommand, runCommand, shutdown) and the port-forward *)
(* tunnels (pkg/k8/forward: CNDPortForward).                               *)
(*                                                                         *)
(* One TLA+ process per goroutine.  Goroutines started in a cycle (one    *)
(* iteration of Activate's loop) are indexed by the number of that cycle; *)
(* they keep running after a reconnect, as in the program.                 *)
(*                                                                         *)
(* Further parts, each with its own specification over the same variables: *)
(* the synchroniser daemon and its PID file (SpecSy), the shutdown         *)
(* sequence of RunUp (SpecShut), the reader of the synchronisation         *)
(* progress (SpecProg), the translation of a deployment (SpecTr), the      *)
(* forward bundle and the SSH entry (SpecBn), the forward strings of a     *)
(* manifest (SpecFw), getCurrentDeployment (SpecGc), the translation rules *)
(* (SpecRl), the mount source (SpecFx), the end of synchronizeFiles and    *)
(* the monitor (SpecMn), the interrupt during devMode or sync (SpecCc),    *)
(* the forwarder with its goroutines scheduled (SpecFwdLive), the cycles   *)
(* of a stack's dependencies (SpecDc), the wait of `pipeline deploy`       *)
(* (SpecWr) and the handler of the login callback (SpecLh).                *)
(***************************************************************************)
EXTENDS Naturals, Sequences, FiniteSets

\* Number of iterations of Activate's loop the model follows.
MaxCycles == 2

Cycles == 1..MaxCycles

\* Number of forwards the manifest declares.
UserForwards == 1

\* devMode adds the synchroniser's cluster port and its GUI port.
SyncthingForwards == 2

Forwards == 1..(UserForwards + SyncthingForwards)

\* Number of activations that start a synchroniser on the same home.
MaxRuns == 2

Runs == 1..MaxRuns

\* Number of completion values the progress reader is followed for, and the
\* completion levels they are taken from.
MaxReports == 4
MaxLevel == 3
Levels == 0..MaxLevel

\* Number of operations (translate, restore) applied to a deployment.
MaxOps == 2

\* The pid a PID file left by an earlier invocation names.
OldPid == MaxRuns + 1

\* The child of activation a has pid a.
Pids == 1..OldPid

VARIABLES
    \* --- RunUp (the main goroutine) ---
    runPc,        \* "select" | "writeFailed" | "shutdown" | "done"
    runErr,       \* what ended the select: "none" | "ctrlc" | a value of Exit
    wroteFailed,  \* RunUp has called updateStateFile(failed)
    \* --- Activate goroutine ---
    actPc,        \* position in Activate / devMode / sync
    cycle,        \* number of the current loop iteration (0 before the loop)
    retry,        \* up.retry
    success,      \* up.success
    d,            \* deployment returned by getCurrentDeployment
    prevError,    \* result of WaitUntilExitOrInterrupt
    syncErr,      \* error returned by up.sync()
    \* --- the cluster ---
    deployment,   \* "absent" | "prod" | "dev"
    podExists,    \* the dev pod exists
    \* --- UpContext fields, one value per cycle ---
    ctxLive,      \* up.Context of the cycle is not cancelled
    Exit,         \* up.Exit, buffered (1)
    cleaned,      \* up.cleaned of each cycle: number of buffered signals
    Running,      \* up.Running of each cycle: buffered results
    Disconnect,   \* up.Disconnect of each cycle: signalled
    ErrChan,      \* up.ErrChan of each cycle: number of buffered messages
    \* --- goroutines started in each cycle ---
    reporter,     \* devMode's reporter goroutine
    reporterClosed, \* close(reporter) has run
    cleanCmd,     \* cleanCommand goroutine
    runCmd,       \* the goroutine that waits for cleaned and calls runCommand
    monitor,      \* up.Sy.Monitor goroutine
    \* --- the state file ---
    stateFile,    \* the last value written by updateStateFile
    writtenIn,    \* the cycle in which it was written
    \* --- bookkeeping ---
    shutdowns,    \* how many times shutdown() cancelled the scope of each cycle
    Pod,          \* up.Pod: the cycle in which it was assigned (0: never)
    objects,      \* the claims, secret and service of the manifest in the cluster
    \* --- the forwarder of the current cycle ---
    mgr,          \* Forwarder.Start: "idle" | "waiting" | "ok" | "err"
    got,          \* number of ready signals Start has received
    readyCh,      \* the `ready` channel: number of buffered signals
    fwdCtx,       \* the context given to the tunnels is not cancelled
    tunnel,       \* CNDPortForward.Start of each forward
    startErr,     \* CNDPortForward.start returned an error
    IsReady,      \* CNDPortForward.IsReady
    StopChan,     \* CNDPortForward.StopChan is open
    pfReady,      \* pf.Ready is closed: the tunnel listens
    fwd,          \* the forwardPorts goroutine of each forward
    \* --- the local synchroniser of one home directory ---
    goos,         \* runtime.GOOS: "unix" | "windows"
    pidFile,      \* content of <home>/syncthing.pid (0: no such file)
    alive,        \* the processes that run
    signalled,    \* the processes that were sent os.Interrupt
    syPc,         \* position of each activation in Syncthing.Run / Stop
    syIn,         \* the caller of cleanupDaemon: "Run" | "Stop"
    syPid,        \* the pid cleanupDaemon read (0: none)
    sySent,       \* cleanupDaemon's proc.Signal returned nil
    \* --- the shutdown sequence ---
    shCfg,        \* remote mode, stdin is a terminal, what Activate has assigned
    shAct,        \* Activate: "activating" | "wait" | "returned"
    shExit,       \* the value Activate sent on Exit ("none": nothing yet)
    shPc,         \* RunUp: "select", then the steps of shutdown, "returned"
    shCause,      \* what ended RunUp's select
    shLog,        \* the steps performed, in order
    shFail,       \* the steps of shutdown that returned an error
    shRet,        \* what RunUp returned
    \* --- the progress reader of synchronizeFiles ---
    prPc,         \* "tick" | "range"
    previous,     \* the reader's `previous`
    received,     \* the values received on `reporter`, in order
    rendered,     \* the values rendered, in order
    \* --- the translation of a deployment ---
    trDev,        \* the manifest
    trOrig,       \* the deployment before `up`
    trD,          \* the deployment now
    trOps,        \* the operations applied to it, in order
    \* --- the forward bundle and the SSH entry ---
    Dev,          \* up.Dev: RemotePort, reverse forwards declared, Forward
    declared,     \* the forwards the manifest declares
    Sy,           \* up.Sy: RemotePort and RemoteGUIPort
    ports,        \* the forwards added to up.Forwarder, in order
    sshEntry,     \* the ports of the SSH entries of up.Dev.Name
    bnPc,         \* position in RunUp / devMode / shutdown
    bnIdx,        \* index of devMode's loop over up.Dev.Forward
    bnFail,       \* the call whose error ended devMode
    bnCycle,      \* number of the iteration of Activate's loop
    \* --- the forward strings of a manifest ---
    data,         \* the string given to Forward's unmarshalling
    fwPc,         \* "unmarshal" | "marshal" | "again" | "done"
    result,       \* what unmarshalling data gave
    out,          \* what marshalling the result gave
    back,         \* what unmarshalling out gave
    \* --- one call of getCurrentDeployment ---
    gcIn,         \* the cluster, the outcome of Get, up.retry, labels, image, ...
    gcPc,         \* "call" | "returned"
    gcD,          \* the deployment returned ("none": nil)
    gcCreate,     \* the second result
    gcErr,        \* the error returned
    gcAsked,      \* askYesNo was called
    gcExit,       \* what Activate sent on up.Exit after the call
    \* --- the translation rules of a manifest ---
    rlMain,       \* the manifest
    rlService,    \* a service of the manifest
    rules,        \* the rules made: "main" and "service"
    \* --- the mount source of a manifest ---
    Source,       \* dev.Mount.Source
    given,        \* the source the manifest names
    originalPath, \* the path of the manifest
    wd,           \* the working directory
    once,         \* the source after the first fixPath
    fixed,        \* number of times fixPath was applied
    \* --- the end of synchronizeFiles and the monitor ---
    mnPc,         \* synchronizeFiles: "completion" | "updateConfig" | ... | "returned"
    Type,         \* up.Sy.Type
    mnMonitor,    \* the Monitor goroutine: "none" | "polling" | "done"
    mnRestart,    \* up.Sy.Restart: "none" | "running" | "done" | "failed"
    polls,        \* what the monitor's polls found, in order
    mnDisconnect, \* the monitor has signalled the disconnect
    \* --- the interrupt during devMode or sync ---
    ccAct,        \* Activate: "dm_pre" | "dm_pod" | "dm_start" | "sync" | "syncing" | "waiting" | "returned" | "gone"
    ccRun,        \* RunUp: "select" | "cancel" | "stopSy" | "stopFw" | "completed" | "exited"
    ccCtx,        \* up.Context is not cancelled
    ccSy,         \* up.Sy is assigned
    ccForwarder,  \* up.Forwarder: "nil" | "created" | "open" | "stopped"
    ccChild,      \* the synchroniser process: "none" | "alive" | "stopped"
    ccStopper,    \* the goroutine of Run that waits for ctx.Done(): "none" | "waiting" | "done" | "gone"
    ccLate,       \* what Activate started after shutdown had completed
    \* --- getDependentCyclic ---
    dcStack,      \* the Stack: its Services and the DependsOn of each
    dcPc,         \* "idle" | "loop" | "collect" | "returned"
    dcTodo,       \* the services the range over s.Services has not yielded yet
    dcVisited,    \* the names whose entry in `visited` is true
    dcInStack,    \* the names whose entry in `stack` is true
    dcCycle,      \* the list that is returned
    \* --- pipeline: waitUntilRunning ---
    wrTimeout,    \* the timeout given, in seconds
    wrPc,         \* "idle" | "start" | "select" | "returned" | "panic"
    wrTicks,      \* the seconds that have passed since the tickers were made
    attempts,     \* the local variable attempts
    wrSeen,       \* the polls so far: their number, those that saw the status error, those that saw another status and went on, and what the last one found
    wrResult,     \* what waitUntilRunning returned
    \* --- login: the handler of the callback ---
    lhReq,        \* per request: the code and the state of its query ("none": not arrived)
    lhPc,         \* per request: "none" | "check" | "write" | "send" | "done"
    response,     \* a.response: the codes sent, each with its request
    errChan,      \* a.errChan: the errors sent, each with its request
    lhStatus      \* per request: what was written to the ResponseWriter

runVars == <<runPc, runErr, wroteFailed>>
actVars == <<actPc, cycle, retry, success, d, prevError, syncErr>>
envVars == <<deployment, podExists>>
chanVars == <<Exit, cleaned, Running, Disconnect, ErrChan>>
goVars == <<reporter, reporterClosed, cleanCmd, runCmd, monitor>>
fileVars == <<stateFile, writtenIn>>

upVars == <<runVars, actVars, envVars, chanVars, goVars, fileVars, ctxLive, shutdowns,
            Pod, objects>>
fwdVars == <<mgr, got, readyCh, fwdCtx, tunnel, startErr, IsReady, StopChan, pfReady, fwd>>

syVars == <<goos, pidFile, alive, signalled, syPc, syIn, syPid, sySent>>

\* everything but the activation loop, and everything but the forwarder
shVars == <<shCfg, shAct, shExit, shPc, shCause, shLog, shFail, shRet>>

progVars == <<prPc, previous, received, rendered>>

trVars == <<trDev, trOrig, trD, trOps>>

bnVars == <<Dev, declared, Sy, ports, sshEntry, bnPc, bnIdx, bnFail, bnCycle>>

fwVars == <<data, fwPc, result, out, back>>

gcVars == <<gcIn, gcPc, gcD, gcCreate, gcErr, gcAsked, gcExit>>

rlVars == <<rlMain, rlService, rules>>

fxVars == <<Source, given, originalPath, wd, once, fixed>>

mnVars == <<mnPc, Type, mnMonitor, mnRestart, polls, mnDisconnect>>

ccVars == <<ccAct, ccRun, ccCtx, ccSy, ccForwarder, ccChild, ccStopper, ccLate>>

dcVars == <<dcStack, dcPc, dcTodo, dcVisited, dcInStack, dcCycle>>

wrVars == <<wrTimeout, wrPc, wrTicks, attempts, wrSeen, wrResult>>

lhVars == <<lhReq, lhPc, response, errChan, lhStatus>>

auxVars == <<fwdVars, syVars, shVars, progVars, trVars, bnVars, fwVars, gcVars, rlVars, fxVars, mnVars, ccVars, dcVars, wrVars, lhVars>>
notFwd == <<upVars, syVars, shVars, progVars, trVars, bnVars, fwVars, gcVars, rlVars, fxVars, mnVars, ccVars, dcVars, wrVars, lhVars>>
notSy == <<upVars, fwdVars, shVars, progVars, trVars, bnVars, fwVars, gcVars, rlVars, fxVars, mnVars, ccVars, dcVars, wrVars, lhVars>>
notSh == <<upVars, fwdVars, syVars, progVars, trVars, bnVars, fwVars, gcVars, rlVars, fxVars, mnVars, ccVars, dcVars, wrVars, lhVars>>
notProg == <<upVars, fwdVars, syVars, shVars, trVars, bnVars, fwVars, gcVars, rlVars, fxVars, mnVars, ccVars, dcVars, wrVars, lhVars>>
notTr == <<upVars, fwdVars, syVars, shVars, progVars, bnVars, fwVars, gcVars, rlVars, fxVars, mnVars, ccVars, dcVars, wrVars, lhVars>>
notBn == <<upVars, fwdVars, syVars, shVars, progVars, trVars, fwVars, gcVars, rlVars, fxVars, mnVars, ccVars, dcVars, wrVars, lhVars>>
notFw == <<upVars, fwdVars, syVars, shVars, progVars, trVars, bnVars, gcVars, rlVars, fxVars, mnVars, ccVars, dcVars, wrVars, lhVars>>
notGc == <<upVars, fwdVars, syVars, shVars, progVars, trVars, bnVars, fwVars, rlVars, fxVars, mnVars, ccVars, dcVars, wrVars, lhVars>>
notRl == <<upVars, fwdVars, syVars, shVars, progVars, trVars, bnVars, fwVars, gcVars, fxVars, mnVars, ccVars, dcVars, wrVars, lhVars>>
notFx == <<upVars, fwdVars, syVars, shVars, progVars, trVars, bnVars, fwVars, gcVars, rlVars, mnVars, ccVars, dcVars, wrVars, lhVars>>
notMn == <<upVars, fwdVars, syVars, shVars, progVars, trVars, bnVars, fwVars, gcVars, rlVars, fxVars, ccVars, dcVars, wrVars, lhVars>>
notCc == <<upVars, fwdVars, syVars, shVars, progVars, trVars, bnVars, fwVars, gcVars, rlVars, fxVars, mnVars, dcVars, wrVars, lhVars>>
notDc == <<upVars, fwdVars, syVars, shVars, progVars, trVars, bnVars, fwVars, gcVars, rlVars, fxVars, mnVars, ccVars, wrVars, lhVars>>
notWr == <<upVars, fwdVars, syVars, shVars, progVars, trVars, bnVars, fwVars, gcVars, rlVars, fxVars, mnVars, ccVars, dcVars, lhVars>>
notLh == <<upVars, fwdVars, syVars, shVars, progVars, trVars, bnVars, fwVars, gcVars, rlVars, fxVars, mnVars, ccVars, dcVars, wrVars>>

vars == <<upVars, auxVars>>

----------------------------------------------------------------------------
\* The states of the state file, in the order of the activation.
activating == "activating"
starting == "starting"
attaching == "attaching"
pulling == "pulling"
startingSync == "startingSync"
synchronizing == "synchronizing"
ready == "ready"
failed == "failed"

\* errors
ErrLostConnection == "LostConnection"
ErrCommandFailed == "CommandFailed"
ErrNotDevDeployment == "NotDevDeployment"
ErrNotFound == "ErrNotFound"

\* The process is alive until RunUp returns: main then calls os.Exit.
Alive == runPc # "done"

\* up.updateStateFile(s)
updateStateFile(s) ==
    /\ stateFile' = s
    /\ writtenIn' = cycle

\* A read of a field of UpContext by a goroutine started in cycle c, not
\* synchronised with Activate's writes of the field at the top of the loop:
\* it yields the value of cycle c or of any later cycle opened so far.
RacyRead(c) == c..cycle

FwdIdle ==
    /\ mgr = "idle"
    /\ got = 0
    /\ readyCh = 0
    /\ fwdCtx = TRUE
    /\ tunnel = [t \in Forwards |-> "none"]
    /\ startErr = [t \in Forwards |-> FALSE]
    /\ IsReady = [t \in Forwards |-> FALSE]
    /\ StopChan = [t \in Forwards |-> TRUE]
    /\ pfReady = [t \in Forwards |-> FALSE]
    /\ fwd = [t \in Forwards |-> "none"]

\* No activation has called Syncthing.Run.
SyIdle ==
    /\ goos = "unix"
    /\ pidFile = 0
    /\ alive = [p \in Pids |-> FALSE]
    /\ signalled = [p \in Pids |-> FALSE]
    /\ syPc = [a \in Runs |-> "none"]
    /\ syIn = [a \in Runs |-> "Run"]
    /\ syPid = [a \in Runs |-> 0]
    /\ sySent = [a \in Runs |-> FALSE]

\* The shutdown sequence is not followed.
ShIdle ==
    /\ shCfg = [remote |-> FALSE, term |-> FALSE, assigned |-> 0]
    /\ shAct = "activating"
    /\ shExit = "none"
    /\ shPc = "select"
    /\ shCause = "none"
    /\ shLog = <<>>
    /\ shFail = {}
    /\ shRet = "none"

\* The progress reader has not been started.
ProgIdle ==
    /\ prPc = "tick"
    /\ previous = 0
    /\ received = <<>>
    /\ rendered = <<>>

\* No deployment is being translated.
TrIdle ==
    /\ trDev = "none"
    /\ trOrig = "none"
    /\ trD = "none"
    /\ trOps = <<>>

\* No forward bundle is being registered.
BnIdle ==
    /\ Dev = "none"
    /\ declared = <<>>
    /\ Sy = "none"
    /\ ports = <<>>
    /\ sshEntry = {}
    /\ bnPc = "idle"
    /\ bnIdx = 0
    /\ bnFail = "none"
    /\ bnCycle = 0

\* No forward string is being read.
FwIdle ==
    /\ data = <<>>
    /\ fwPc = "idle"
    /\ result = "none"
    /\ out = <<>>
    /\ back = "none"

\* getCurrentDeployment is not followed on its own.
GcIdle ==
    /\ gcIn = "none"
    /\ gcPc = "idle"
    /\ gcD = "none"
    /\ gcCreate = FALSE
    /\ gcErr = "none"
    /\ gcAsked = FALSE
    /\ gcExit = <<>>

\* No translation rule is being made.
RlIdle ==
    /\ rlMain = "none"
    /\ rlService = "none"
    /\ rules = <<>>

\* No mount source is being fixed.
FxIdle ==
    /\ Source = "none"
    /\ given = "none"
    /\ originalPath = "none"
    /\ wd = "none"
    /\ once = "none"
    /\ fixed = 0

\* synchronizeFiles is not followed on its own.
MnIdle ==
    /\ mnPc = "idle"
    /\ Type = "none"
    /\ mnMonitor = "none"
    /\ mnRestart = "none"
    /\ polls = <<>>
    /\ mnDisconnect = FALSE

\* No interrupt is followed.
CcIdle ==
    /\ ccAct = "idle"
    /\ ccRun = "idle"
    /\ ccCtx = TRUE
    /\ ccSy = FALSE
    /\ ccForwarder = "nil"
    /\ ccChild = "none"
    /\ ccStopper = "none"
    /\ ccLate = {}

\* getDependentCyclic is not called.
DcIdle ==
    /\ dcStack = [Services |-> {}, DependsOn |-> <<>>]
    /\ dcPc = "idle"
    /\ dcTodo = {}
    /\ dcVisited = {}
    /\ dcInStack = {}
    /\ dcCycle = <<>>

\* waitUntilRunning is not called.
WrIdle ==
    /\ wrTimeout = 0
    /\ wrPc = "idle"
    /\ wrTicks = 0
    /\ attempts = 0
    /\ wrSeen = [polls |-> 0, error |-> 0, other |-> 0, last |-> "none"]
    /\ wrResult = "none"

\* No callback request arrives.
LhIdle ==
    /\ lhReq = <<>>
    /\ lhPc = <<>>
    /\ response = <<>>
    /\ errChan = <<>>
    /\ lhStatus = <<>>

\* The activation when RunUp has started the Activate goroutine.
UpInit ==
    /\ runPc = "select"
    /\ runErr = "none"
    /\ wroteFailed = FALSE
    /\ actPc = "setup"
    /\ cycle = 0
    /\ retry = FALSE
    /\ success = FALSE
    /\ d = "none"
    /\ prevError = "none"
    /\ syncErr = "none"
    /\ deployment \in {"absent", "prod", "dev"}
    /\ podExists = FALSE
    /\ ctxLive = [c \in Cycles |-> FALSE]
    /\ Exit = <<>>
    /\ cleaned = [c \in Cycles |-> 0]
    /\ Running = [c \in Cycles |-> <<>>]
    /\ Disconnect = [c \in Cycles |-> FALSE]
    /\ ErrChan = [c \in Cycles |-> 0]
    /\ reporter = [c \in Cycles |-> "none"]
    /\ reporterClosed = [c \in Cycles |-> FALSE]
    /\ cleanCmd = [c \in Cycles |-> "none"]
    /\ runCmd = [c \in Cycles |-> "none"]
    /\ monitor = [c \in Cycles |-> "none"]
    /\ stateFile = "none"
    /\ writtenIn = 0
    /\ shutdowns = [c \in Cycles |-> 0]
    /\ Pod = 0
    /\ objects = {}

Init == UpInit /\ FwdIdle /\ SyIdle /\ ShIdle /\ ProgIdle /\ TrIdle /\ BnIdle /\ FwIdle /\ GcIdle /\ RlIdle /\ FxIdle /\ MnIdle /\ CcIdle /\ DcIdle /\ WrIdle /\ LhIdle

----------------------------------------------------------------------------
\* up.shutdown() when up.Cancel is the cancel function of cycle c (c = 0: nil).
shutdown(c) ==
    IF c = 0
    THEN UNCHANGED <<ctxLive, shutdowns>>
    ELSE /\ ctxLive' = [ctxLive EXCEPT ![c] = FALSE]
         /\ shutdowns' = [shutdowns EXCEPT ![c] = @ + 1]

\* Mutant of ActExit: the error is sent twice.
ActExit_SendsTwice(err) ==
    /\ Exit' = Append(Append(Exit, err), err)
    /\ actPc' = "returned"
    /\ reporterClosed' =
         IF cycle > 0 /\ reporter[cycle] # "none"
         THEN [reporterClosed EXCEPT ![cycle] = TRUE]
         ELSE reporterClosed

\* Activate: `up.Exit <- err; return`, leaving devMode if it is inside it
\* (the deferred close(reporter) runs when devMode returns).
ActExit(err) ==
    /\ Exit' = Append(Exit, err)
    /\ actPc' = "returned"
    /\ reporterClosed' =
         IF cycle > 0 /\ reporter[cycle] # "none"
         THEN [reporterClosed EXCEPT ![cycle] = TRUE]
         ELSE reporterClosed

\* Activate, before the loop: term.SaveState, k8Client.GetLocal, namespaces.Get
ActSetup ==
    /\ Alive /\ actPc = "setup"
    /\ \/ /\ actPc' = "loop"
          /\ UNCHANGED <<Exit, reporterClosed>>
       \/ ActExit("SetupError")
    /\ UNCHANGED <<runVars, cycle, retry, success, d, prevError, syncErr, envVars,
                   cleaned, Running, Disconnect, ErrChan, reporter,
                   cleanCmd, runCmd, monitor, fileVars, ctxLive, shutdowns,
                   Pod, objects, auxVars>>

\* Top of the loop: a fresh cancellation scope and fresh channels.
ActLoop ==
    /\ Alive /\ actPc = "loop"
    /\ cycle < MaxCycles
    /\ cycle' = cycle + 1
    /\ ctxLive' = [ctxLive EXCEPT ![cycle + 1] = TRUE]
    /\ actPc' = "getDeployment"
    /\ d' = "none" /\ prevError' = "none" /\ syncErr' = "none"
    /\ UNCHANGED <<runVars, retry, success, envVars, chanVars, goVars, fileVars,
                   shutdowns,
                   Pod, objects, auxVars>>

----------------------------------------------------------------------------
\* errors.IsNotFound(err)
IsNotFound(err) == err \in {ErrNotFound, "k8sNotFound"}

\* The outcomes deployments.Get can have for a cluster in state dep.
GetOutcomes(dep) ==
    IF dep = "absent" THEN {ErrNotFound, "k8sNotFound", "ApiError"}
                      ELSE {"found", "ApiError"}

\* Mutant of getCurrentDeployment: the labels of the manifest are not looked at.
getCurrentDeployment_IgnoresLabels(dep, g, rtry, labels, envAuto, autoDeploy, answer) ==
    IF g = "found" THEN [d |-> dep, err |-> "nil"]
    ELSE IF ~IsNotFound(g) \/ rtry THEN [d |-> "none", err |-> g]
    ELSE IF ~(envAuto \/ autoDeploy \/ answer)
         THEN [d |-> "none", err |-> "UserError:nodeployment"]
    ELSE [d |-> "sandbox", err |-> "nil"]

\* Mutant of getCurrentDeployment: up.retry is not looked at.
getCurrentDeployment_IgnoresRetry(dep, g, rtry, labels, envAuto, autoDeploy, answer) ==
    IF g = "found" THEN [d |-> dep, err |-> "nil"]
    ELSE IF ~IsNotFound(g) THEN [d |-> "none", err |-> g]
    ELSE IF labels
         THEN [d |-> "none",
               err |-> IF g = ErrNotFound THEN "UserError:labels" ELSE g]
    ELSE IF ~(envAuto \/ autoDeploy \/ answer)
         THEN [d |-> "none", err |-> "UserError:nodeployment"]
    ELSE [d |-> "sandbox", err |-> "nil"]

\* up.getCurrentDeployment: g is the outcome of deployments.Get, labels says
\* whether the manifest selects by labels, envAuto whether OKTETO_AUTODEPLOY
\* is set, answer what the user answers when asked.
getCurrentDeployment(dep, g, rtry, labels, envAuto, autoDeploy, answer) ==
    IF g = "found" THEN [d |-> dep, err |-> "nil"]
    ELSE IF ~IsNotFound(g) \/ rtry THEN [d |-> "none", err |-> g]
    ELSE IF labels
         THEN [d |-> "none",
               err |-> IF g = ErrNotFound THEN "UserError:labels" ELSE g]
    ELSE IF ~(envAuto \/ autoDeploy \/ answer)
         THEN [d |-> "none", err |-> "UserError:nodeployment"]
    ELSE [d |-> "sandbox", err |-> "nil"]

\* Mutant of create: a reconnect deploys as if it had created the deployment.
create_OnRetry(dd) == dd = "sandbox" \/ retry

\* The `create` result of getCurrentDeployment, as Activate hands it to
\* devMode with the deployment: true for the sandbox only.
create(dd) == dd = "sandbox"

\* deployments.IsDevModeOn(d), as devMode uses it on the deployment it was given
IsDevModeOn(dd) == dd = "dev"

\* strings.HasPrefix(message, "Pulling")
IsPulling(m) == m = "Pulling image"

\* The progress messages pods.MonitorDevPod reports.
Messages == {"Pulling image", "Starting container"}

\* What the cluster holds when the program looks at it again: a deployment in
\* dev mode may meanwhile have been returned to production mode or deleted.
Drift(dep) == IF dep = "dev" THEN {"dev", "prod", "absent"} ELSE {dep}

\* pods.Exists(up.Pod, ...): a pod that existed may have disappeared.
PodDrift(there) == IF there THEN {TRUE, FALSE} ELSE {FALSE}

ActGetDeployment ==
    /\ Alive /\ actPc = "getDeployment"
    /\ deployment' \in Drift(deployment)
    /\ \E g \in GetOutcomes(deployment'), labels, envAuto, autoDeploy, answer \in BOOLEAN :
         LET r == getCurrentDeployment(deployment', g, retry, labels, envAuto,
                                       autoDeploy, answer)
         IN IF r.err = "nil"
            THEN /\ d' = r.d
                 /\ actPc' = "dm_activating"
                 /\ UNCHANGED <<Exit, reporterClosed>>
            ELSE /\ d' = "none"
                 /\ ActExit(r.err)
    /\ UNCHANGED <<runVars, cycle, retry, success, prevError, syncErr, podExists,
                   cleaned, Running, Disconnect, ErrChan, reporter,
                   cleanCmd, runCmd, monitor, fileVars, ctxLive, shutdowns,
                   Pod, objects, auxVars>>

\* devMode: updateStateFile(activating)
ActDmActivating ==
    /\ Alive /\ actPc = "dm_activating"
    /\ updateStateFile(activating)
    /\ actPc' = "dm_prep"
    /\ UNCHANGED <<runVars, cycle, retry, success, d, prevError, syncErr, envVars,
                   chanVars, goVars, ctxLive, shutdowns,
                   Pod, objects, auxVars>>

\* volumes.Create, secrets.Create, services.Create: the cluster holds the
\* named objects afterwards; the names come from the manifest.
volumesCreate(objs) == objs \cup {"pvc"}
secretsCreate(objs) == objs \cup {"secret"}
servicesCreate(objs) == objs \cup {"service"}

\* devMode: IsOktetoAllowed, volumes.Create, GetDevContainer
ActDmPrep ==
    /\ Alive /\ actPc = "dm_prep"
    /\ \/ /\ actPc' = "dm_devcheck"
          /\ objects' = volumesCreate(objects)
          /\ UNCHANGED <<Exit, reporterClosed>>
       \/ /\ ActExit("Error")
          /\ objects' \in {objects, volumesCreate(objects)}
    /\ UNCHANGED <<runVars, cycle, retry, success, d, prevError, syncErr, envVars,
                   cleaned, Running, Disconnect, ErrChan, reporter,
                   cleanCmd, runCmd, monitor, fileVars, ctxLive, shutdowns,
                   Pod, auxVars>>

\* The error devMode returns when, on a retry, the deployment is not in
\* dev mode.
DeactivatedError == "Development environment has been deactivated"

\* devMode: the dev-mode check of a retry, then updateStateFile(starting)
ActDmDevCheck ==
    /\ Alive /\ actPc = "dm_devcheck"
    /\ IF retry /\ ~IsDevModeOn(d)
       THEN /\ ActExit(DeactivatedError)
            /\ UNCHANGED fileVars
       ELSE /\ updateStateFile(starting)
            /\ actPc' = "dm_translate"
            /\ UNCHANGED <<Exit, reporterClosed>>
    /\ UNCHANGED <<runVars, cycle, retry, success, d, prevError, syncErr, envVars,
                   cleaned, Running, Disconnect, ErrChan, reporter,
                   cleanCmd, runCmd, monitor, ctxLive, shutdowns,
                   Pod, objects, auxVars>>

\* devMode: syncthing.New, secrets, translations, Deploy, services (for a
\* manifest without nested services), GetDevPod, and the start of the
\* reporter goroutine.
ActDmTranslate ==
    /\ Alive /\ actPc = "dm_translate"
    /\ \/ /\ deployment' = "dev"
          /\ objects' = IF create(d) THEN servicesCreate(secretsCreate(objects))
                                     ELSE secretsCreate(objects)
          /\ podExists' = TRUE
          /\ reporter' = [reporter EXCEPT ![cycle] = "attach"]
          /\ actPc' = "dm_monitor"
          /\ UNCHANGED <<Exit, reporterClosed>>
       \/ /\ ActExit("Error")
          /\ objects' \in {objects, secretsCreate(objects)}
          /\ UNCHANGED <<envVars, reporter>>
       \/ /\ ActExit("Error")
          /\ deployment' = "dev"
          /\ objects' \in {secretsCreate(objects)}
                        \cup (IF create(d) THEN {servicesCreate(secretsCreate(objects))}
                                           ELSE {})
          /\ UNCHANGED <<podExists, reporter>>
    /\ d' = "none"
    /\ UNCHANGED <<runVars, cycle, retry, success, prevError, syncErr,
                   cleaned, Running, Disconnect, ErrChan,
                   cleanCmd, runCmd, monitor, fileVars, ctxLive, shutdowns,
                   Pod, auxVars>>

\* pods.MonitorDevPod sends a progress message: the reporter goroutine
\* receives it (the channel is unbuffered).
MonitorSend ==
    /\ Alive /\ actPc = "dm_monitor"
    /\ reporter[cycle] = "recv"
    /\ \E m \in Messages :
         reporter' = [reporter EXCEPT ![cycle] = IF IsPulling(m) THEN "pull" ELSE "recv"]
    /\ UNCHANGED <<runVars, actVars, envVars, chanVars, reporterClosed, cleanCmd,
                   runCmd, monitor, fileVars, ctxLive, shutdowns,
                   Pod, objects, auxVars>>

\* pods.MonitorDevPod returns; on success up.Pod is set (recorded as the
\* number of the cycle that set it) and cleanCommand starts.
MonitorReturn ==
    /\ Alive /\ actPc = "dm_monitor"
    /\ \/ /\ cleanCmd' = [cleanCmd EXCEPT ![cycle] = "exec"]
          /\ actPc' = "dm_forward"
          /\ Pod' = cycle
          /\ UNCHANGED <<Exit, reporterClosed>>
       \/ /\ ActExit("Error")
          /\ UNCHANGED <<cleanCmd, Pod>>
    /\ UNCHANGED <<runVars, cycle, retry, success, d, prevError, syncErr, envVars,
                   cleaned, Running, Disconnect, ErrChan, reporter,
                   runCmd, monitor, fileVars, ctxLive, shutdowns,
                   objects, auxVars>>

\* The error up.Forwarder.Add returns for a forward it cannot register.
ForwardAddError == "ForwardAddError"

\* devMode: the forwarder is created, filled (an Add may fail) and started,
\* the ssh entry is added; devMode returns (close(reporter) is deferred to
\* here).
ActDmForward ==
    /\ Alive /\ actPc = "dm_forward"
    /\ \/ /\ reporterClosed' = [reporterClosed EXCEPT ![cycle] = TRUE]
          /\ actPc' = "sync_start"
          /\ UNCHANGED Exit
       \/ \E err \in {ForwardAddError, "Error"} : ActExit(err)
    /\ UNCHANGED <<runVars, cycle, retry, success, d, prevError, syncErr, envVars,
                   cleaned, Running, Disconnect, ErrChan, reporter,
                   cleanCmd, runCmd, monitor, fileVars, ctxLive, shutdowns,
                   Pod, objects, auxVars>>

\* startLocalSyncthing: updateStateFile(startingSync)
ActSyncStart ==
    /\ Alive /\ actPc = "sync_start"
    /\ updateStateFile(startingSync)
    /\ actPc' = "sync_run"
    /\ UNCHANGED <<runVars, cycle, retry, success, d, prevError, syncErr, envVars,
                   chanVars, goVars, ctxLive, shutdowns,
                   Pod, objects, auxVars>>

\* startLocalSyncthing: Run, WaitForPing, SendStignoreFile, WaitForScanning;
\* then synchronizeFiles: updateStateFile(synchronizing)
ActSyncRun ==
    /\ Alive /\ actPc = "sync_run"
    /\ \/ /\ updateStateFile(synchronizing)
          /\ actPc' = "sync_wait"
          /\ UNCHANGED syncErr
       \/ /\ syncErr' = "Error"
          /\ actPc' = "sync_failed"
          /\ UNCHANGED fileVars
    /\ UNCHANGED <<runVars, cycle, retry, success, d, prevError, envVars,
                   chanVars, goVars, ctxLive, shutdowns,
                   Pod, objects, auxVars>>

\* synchronizeFiles: WaitForCompletion, UpdateConfig, go Monitor, Restart
ActSyncWait ==
    /\ Alive /\ actPc = "sync_wait"
    /\ \/ /\ monitor' = [monitor EXCEPT ![cycle] = "polling"]
          /\ actPc' = "activated"
          /\ UNCHANGED syncErr
       \/ /\ syncErr' \in {"Error", "UserError:SyncFrozen"}
          /\ actPc' = "sync_failed"
          /\ UNCHANGED monitor
       \/ /\ monitor' = [monitor EXCEPT ![cycle] = "polling"]
          /\ syncErr' = "Error"
          /\ actPc' = "sync_failed"
    /\ UNCHANGED <<runVars, cycle, retry, success, d, prevError, envVars,
                   chanVars, reporter, reporterClosed, cleanCmd, runCmd,
                   fileVars, ctxLive, shutdowns,
                   Pod, objects, auxVars>>

\* Activate: sync failed: reconnect if the pod is gone, else exit.
ActSyncFailed ==
    /\ Alive /\ actPc = "sync_failed"
    /\ podExists' \in PodDrift(podExists)
    /\ IF ~podExists'
       THEN /\ shutdown(cycle)
            /\ actPc' = "loop"
            /\ UNCHANGED <<Exit, reporterClosed>>
       ELSE /\ ActExit(syncErr)
            /\ UNCHANGED <<ctxLive, shutdowns>>
    /\ UNCHANGED <<runVars, cycle, retry, success, d, prevError, syncErr, deployment,
                   cleaned, Running, Disconnect, ErrChan, reporter,
                   cleanCmd, runCmd, monitor, fileVars,
                   Pod, objects, auxVars>>

\* Activate: success, retry, and the goroutine that will run the command.
ActActivated ==
    /\ Alive /\ actPc = "activated"
    /\ success' = TRUE
    /\ retry' = TRUE
    /\ runCmd' = [runCmd EXCEPT ![cycle] = "waitCleaned"]
    /\ actPc' = "wait"
    /\ UNCHANGED <<runVars, cycle, d, prevError, syncErr, envVars, chanVars,
                   reporter, reporterClosed, cleanCmd, monitor, fileVars,
                   ctxLive, shutdowns,
                   Pod, objects, auxVars>>

----------------------------------------------------------------------------
\* WaitUntilExitOrInterrupt: the case of the select on up.Running
WaitRunning ==
    /\ Alive /\ actPc = "wait"
    /\ Running[cycle] # <<>>
    /\ prevError' = IF Head(Running[cycle]) # "nil" THEN ErrCommandFailed ELSE "nil"
    /\ Running' = [Running EXCEPT ![cycle] = Tail(@)]
    /\ actPc' = "decide"
    /\ UNCHANGED <<runVars, cycle, retry, success, d, syncErr, envVars, Exit,
                   cleaned, Disconnect, ErrChan, goVars, fileVars, ctxLive, shutdowns,
                   Pod, objects, auxVars>>

\* WaitUntilExitOrInterrupt: the case of the select on up.ErrChan
WaitErrChan ==
    /\ Alive /\ actPc = "wait"
    /\ ErrChan[cycle] > 0
    /\ ErrChan' = [ErrChan EXCEPT ![cycle] = @ - 1]
    /\ UNCHANGED <<runVars, actVars, envVars, Exit, cleaned, Running, Disconnect,
                   goVars, fileVars, ctxLive, shutdowns,
                   Pod, objects, auxVars>>

\* WaitUntilExitOrInterrupt: the case of the select on up.Disconnect
WaitDisconnect ==
    /\ Alive /\ actPc = "wait"
    /\ Disconnect[cycle]
    /\ prevError' = ErrLostConnection
    /\ actPc' = "decide"
    /\ UNCHANGED <<runVars, cycle, retry, success, d, syncErr, envVars, chanVars,
                   goVars, fileVars, ctxLive, shutdowns,
                   Pod, objects, auxVars>>

\* Mutant of ShouldReconnect: a failed command reconnects whether or not the
\* pod exists.
ShouldReconnect_IgnoresPod(err, podThere) ==
    /\ err # "nil"
    /\ err \in {ErrLostConnection, ErrCommandFailed}

\* Mutant of ShouldReconnect: only a lost connection reconnects.
ShouldReconnect_OnlyLost(err, podThere) ==
    err = ErrLostConnection

\* Activate's test of prevError: reconnect or exit.
ShouldReconnect(err, podThere) ==
    /\ err # "nil"
    /\ \/ err = ErrLostConnection
       \/ err = ErrCommandFailed /\ ~podThere

\* Activate after the wait: shutdown and continue, or send on Exit and return.
ActDecide ==
    /\ Alive /\ actPc = "decide"
    /\ podExists' \in PodDrift(podExists)
    /\ IF ShouldReconnect(prevError, podExists')
       THEN /\ shutdown(cycle)
            /\ actPc' = "loop"
            /\ UNCHANGED <<Exit, reporterClosed>>
       ELSE /\ ActExit(prevError)
            /\ UNCHANGED <<ctxLive, shutdowns>>
    /\ UNCHANGED <<runVars, cycle, retry, success, d, prevError, syncErr, deployment,
                   cleaned, Running, Disconnect, ErrChan, reporter,
                   cleanCmd, runCmd, monitor, fileVars,
                   Pod, objects, auxVars>>

----------------------------------------------------------------------------
\* devMode's reporter goroutine: updateStateFile(attaching)
ReporterAttach(c) ==
    /\ Alive /\ reporter[c] = "attach"
    /\ updateStateFile(attaching)
    /\ reporter' = [reporter EXCEPT ![c] = "recv"]
    /\ UNCHANGED <<runVars, actVars, envVars, chanVars, reporterClosed,
                   cleanCmd, runCmd, monitor, ctxLive, shutdowns,
                   Pod, objects, auxVars>>

\* devMode's reporter goroutine: updateStateFile(pulling).  Back in "recv" it
\* waits for the next message, or returns once the channel is closed.
ReporterPull(c) ==
    /\ Alive /\ reporter[c] = "pull"
    /\ updateStateFile(pulling)
    /\ reporter' = [reporter EXCEPT ![c] = "recv"]
    /\ UNCHANGED <<runVars, actVars, envVars, chanVars, reporterClosed,
                   cleanCmd, runCmd, monitor, ctxLive, shutdowns,
                   Pod, objects, auxVars>>

\* cleanCommand: exec.Exec has returned; `up.cleaned <- struct{}{}`
CleanCommand(c) ==
    /\ Alive /\ cleanCmd[c] = "exec"
    /\ \E ch \in RacyRead(c) :
         /\ cleaned[ch] < 1
         /\ cleaned' = [cleaned EXCEPT ![ch] = @ + 1]
    /\ cleanCmd' = [cleanCmd EXCEPT ![c] = "done"]
    /\ UNCHANGED <<runVars, actVars, envVars, Exit, Running, Disconnect, ErrChan,
                   reporter, reporterClosed, runCmd, monitor, fileVars,
                   ctxLive, shutdowns,
                   Pod, objects, auxVars>>

\* Activate's goroutine: `<-up.cleaned`
RunWaitCleaned(c) ==
    /\ Alive /\ runCmd[c] = "waitCleaned"
    /\ \E ch \in RacyRead(c) :
         /\ cleaned[ch] > 0
         /\ cleaned' = [cleaned EXCEPT ![ch] = @ - 1]
    /\ runCmd' = [runCmd EXCEPT ![c] = "start"]
    /\ UNCHANGED <<runVars, actVars, envVars, Exit, Running, Disconnect, ErrChan,
                   reporter, reporterClosed, cleanCmd, monitor, fileVars,
                   ctxLive, shutdowns,
                   Pod, objects, auxVars>>

\* runCommand: updateStateFile(ready)
RunCommandReady(c) ==
    /\ Alive /\ runCmd[c] = "start"
    /\ updateStateFile(ready)
    /\ runCmd' = [runCmd EXCEPT ![c] = "exec"]
    /\ UNCHANGED <<runVars, actVars, envVars, chanVars, reporter,
                   reporterClosed, cleanCmd, monitor, ctxLive, shutdowns,
                   Pod, objects, auxVars>>

\* runCommand: exec.Exec returns r; `up.Running <- r`
RunCommandReturn(c) ==
    /\ Alive /\ runCmd[c] = "exec"
    /\ \E r \in {"nil", "ExecError"}, ch \in RacyRead(c) :
         /\ Len(Running[ch]) < 1
         /\ Running' = [Running EXCEPT ![ch] = Append(@, r)]
    /\ runCmd' = [runCmd EXCEPT ![c] = "done"]
    /\ UNCHANGED <<runVars, actVars, envVars, Exit, cleaned, Disconnect, ErrChan,
                   reporter, reporterClosed, cleanCmd, monitor, fileVars,
                   ctxLive, shutdowns,
                   Pod, objects, auxVars>>

\* Sy.Monitor of cycle c finds the synchroniser unreachable and signals
\* the Disconnect channel it was given.  It returns without a signal once
\* its context is cancelled.
SyMonitorDisconnect(c) ==
    /\ Alive /\ monitor[c] = "polling"
    /\ ctxLive[c]
    /\ Disconnect' = [Disconnect EXCEPT ![c] = TRUE]
    /\ monitor' = [monitor EXCEPT ![c] = "done"]
    /\ UNCHANGED <<runVars, actVars, envVars, Exit, cleaned, Running, ErrChan,
                   reporter, reporterClosed, cleanCmd, runCmd, fileVars,
                   ctxLive, shutdowns,
                   Pod, objects, auxVars>>

\* A supervised component reports an error on up.ErrChan.
ReportError ==
    /\ Alive /\ actPc = "wait"
    /\ ErrChan[cycle] < 1
    /\ ErrChan' = [ErrChan EXCEPT ![cycle] = @ + 1]
    /\ UNCHANGED <<runVars, actVars, envVars, Exit, cleaned, Running, Disconnect,
                   goVars, fileVars, ctxLive, shutdowns,
                   Pod, objects, auxVars>>

----------------------------------------------------------------------------
\* Mutant of RunUpWritesFailed: the test `err == nil` is missing.
RunUpWritesFailed_Always(err) == TRUE

\* RunUp: whether the value received on Exit makes it write `failed`.
RunUpWritesFailed(err) == err # "nil"

\* RunUp's select: the interrupt signal
RunUpCtrlC ==
    /\ runPc = "select"
    /\ runErr' = "ctrlc"
    /\ runPc' = "shutdown"
    /\ UNCHANGED <<wroteFailed, actVars, envVars, chanVars, goVars, fileVars,
                   ctxLive, shutdowns,
                   Pod, objects, auxVars>>

\* RunUp's select: a value on up.Exit
RunUpExit ==
    /\ runPc = "select"
    /\ Exit # <<>>
    /\ runErr' = Head(Exit)
    /\ Exit' = Tail(Exit)
    /\ runPc' = IF RunUpWritesFailed(Head(Exit)) THEN "writeFailed" ELSE "shutdown"
    /\ UNCHANGED <<wroteFailed, actVars, envVars, cleaned, Running, Disconnect,
                   ErrChan, goVars, fileVars, ctxLive, shutdowns,
                   Pod, objects, auxVars>>

\* RunUp: up.updateStateFile(failed)
RunUpWriteFailed ==
    /\ runPc = "writeFailed"
    /\ updateStateFile(failed)
    /\ wroteFailed' = TRUE
    /\ runPc' = "shutdown"
    /\ UNCHANGED <<runErr, actVars, envVars, chanVars, goVars, ctxLive, shutdowns,
                   Pod, objects, auxVars>>

\* main: os.Exit once RunUp has returned: the goroutines and the channels of
\* the process are gone.
osExit ==
    /\ actPc' = "exited"
    /\ d' = "none" /\ prevError' = "none" /\ syncErr' = "none"
    /\ Exit' = <<>>
    /\ cleaned' = [c \in Cycles |-> 0]
    /\ Running' = [c \in Cycles |-> <<>>]
    /\ Disconnect' = [c \in Cycles |-> FALSE]
    /\ ErrChan' = [c \in Cycles |-> 0]
    /\ reporter' = [c \in Cycles |-> "exited"]
    /\ reporterClosed' = [c \in Cycles |-> FALSE]
    /\ cleanCmd' = [c \in Cycles |-> "exited"]
    /\ runCmd' = [c \in Cycles |-> "exited"]
    /\ monitor' = [c \in Cycles |-> "exited"]

\* The values of up.Cancel RunUp's deferred shutdown can read: after a
\* receive from Exit the one Activate wrote last.  After the interrupt the read
\* is not synchronised with Activate's writes of up.Cancel, and Activate goes
\* on between the read and the exit of the process: the read yields nil or the
\* cancel function of any cycle opened before the process exits.
CancelRead == IF runErr = "ctrlc" THEN 0..cycle ELSE {cycle}

\* RunUp returns: the deferred up.shutdown() runs, then the process exits.
RunUpShutdown ==
    /\ runPc = "shutdown"
    /\ \E c \in CancelRead : shutdown(c)
    /\ runPc' = "done"
    /\ osExit
    /\ UNCHANGED <<runErr, wroteFailed, cycle, retry, success, envVars, fileVars,
                   Pod, objects, auxVars>>

Next ==
    \/ ActSetup \/ ActLoop \/ ActGetDeployment
    \/ ActDmActivating \/ ActDmPrep \/ ActDmDevCheck \/ ActDmTranslate
    \/ MonitorSend \/ MonitorReturn \/ ActDmForward
    \/ ActSyncStart \/ ActSyncRun \/ ActSyncWait \/ ActSyncFailed \/ ActActivated
    \/ WaitRunning \/ WaitErrChan \/ WaitDisconnect \/ ActDecide
    \/ \E c \in Cycles :
         \/ ReporterAttach(c) \/ ReporterPull(c)
         \/ CleanCommand(c) \/ RunWaitCleaned(c) \/ RunCommandReady(c)
         \/ RunCommandReturn(c) \/ SyMonitorDisconnect(c)
    \/ ReportError
    \/ RunUpCtrlC \/ RunUpExit \/ RunUpWriteFailed \/ RunUpShutdown

Spec == Init /\ [][Next]_vars

----------------------------------------------------------------------------
(***************************************************************************)
(* The forwarder.  devMode has reached up.Forwarder.Start in the first     *)
(* cycle; the tunnels are followed from there until they are stopped.      *)
(***************************************************************************)

\* The activation when devMode calls up.Forwarder.Start in the first cycle.
AtForwarderStart ==
    /\ runPc = "select" /\ runErr = "none" /\ wroteFailed = FALSE
    /\ actPc = "dm_forward" /\ cycle = 1
    /\ retry = FALSE /\ success = FALSE
    /\ d = "none" /\ prevError = "none" /\ syncErr = "none"
    /\ deployment = "dev" /\ podExists = TRUE
    /\ ctxLive = [c \in Cycles |-> c = 1]
    /\ Exit = <<>>
    /\ cleaned = [c \in Cycles |-> 0]
    /\ Running = [c \in Cycles |-> <<>>]
    /\ Disconnect = [c \in Cycles |-> FALSE]
    /\ ErrChan = [c \in Cycles |-> 0]
    /\ reporter = [c \in Cycles |-> IF c = 1 THEN "recv" ELSE "none"]
    /\ reporterClosed = [c \in Cycles |-> FALSE]
    /\ cleanCmd = [c \in Cycles |-> IF c = 1 THEN "exec" ELSE "none"]
    /\ runCmd = [c \in Cycles |-> "none"]
    /\ monitor = [c \in Cycles |-> "none"]
    /\ stateFile = attaching /\ writtenIn = 1
    /\ shutdowns = [c \in Cycles |-> 0]
    /\ Pod = 1
    /\ objects \in {{"pvc", "secret"}, {"pvc", "secret", "service"}}

InitFwd == AtForwarderStart /\ FwdIdle /\ SyIdle /\ ShIdle /\ ProgIdle /\ TrIdle /\ BnIdle /\ FwIdle /\ GcIdle /\ RlIdle /\ FxIdle /\ MnIdle /\ CcIdle /\ DcIdle /\ WrIdle /\ LhIdle

\* A forward has failed: its setup returned an error or its tunnel ended
\* with one.
Failed(t) == startErr[t] \/ fwd[t] \in {"lost", "error"}

\* The tunnel of a forward is open.
Open(t) == fwd[t] \in {"dialing", "forwarding"}

\* Forwarder.Start: one goroutine CNDPortForward.Start per registered forward
FwdStart ==
    /\ mgr = "idle"
    /\ mgr' = "waiting"
    /\ tunnel' = [t \in Forwards |-> "start"]
    /\ UNCHANGED <<notFwd, got, readyCh, fwdCtx, startErr, IsReady, StopChan,
                   pfReady, fwd>>

\* Forwarder.Start receives a ready signal
FwdReceiveReady ==
    /\ mgr = "waiting"
    /\ readyCh > 0
    /\ readyCh' = readyCh - 1
    /\ got' = got + 1
    /\ UNCHANGED <<notFwd, mgr, fwdCtx, tunnel, startErr, IsReady, StopChan,
                   pfReady, fwd>>

\* Forwarder.Start returns: every forward has signalled ready, or one has
\* failed.
FwdReturn ==
    /\ mgr = "waiting"
    /\ \/ /\ got = Cardinality(Forwards)
          /\ mgr' = "ok"
       \/ /\ \E t \in Forwards : Failed(t)
          /\ mgr' = "err"
    /\ UNCHANGED <<notFwd, got, readyCh, fwdCtx, tunnel, startErr, IsReady,
                   StopChan, pfReady, fwd>>

\* The context of the cycle is cancelled (up.Cancel in shutdown).
FwdCancel ==
    /\ mgr # "idle"
    /\ fwdCtx
    /\ fwdCtx' = FALSE
    /\ UNCHANGED <<notFwd, mgr, got, readyCh, tunnel, startErr, IsReady, StopChan,
                   pfReady, fwd>>

\* CNDPortForward.start: the round tripper, the dialer and portforward.New;
\* on an error start returns it (Start drops it), else forwardPorts is
\* started in a goroutine.
TunnelSetup(t) ==
    /\ tunnel[t] = "start"
    /\ \/ /\ startErr' = [startErr EXCEPT ![t] = TRUE]
          /\ tunnel' = [tunnel EXCEPT ![t] = "waitCtx"]
          /\ UNCHANGED fwd
       \/ /\ fwd' = [fwd EXCEPT ![t] = "dialing"]
          /\ tunnel' = [tunnel EXCEPT ![t] = "waitReady"]
          /\ UNCHANGED startErr
    /\ UNCHANGED <<notFwd, mgr, got, readyCh, fwdCtx, IsReady, StopChan, pfReady>>

\* Mutant of TunnelReported: start does not wait for pf.Ready.
TunnelReported_NoWait(t) == TRUE

\* CNDPortForward.start: `<-pf.Ready`
TunnelReported(t) == pfReady[t]

\* CNDPortForward.start: after `<-pf.Ready`: IsReady, `ready <- p.IsReady`
TunnelReady(t) ==
    /\ tunnel[t] = "waitReady"
    /\ TunnelReported(t)
    /\ IsReady' = [IsReady EXCEPT ![t] = TRUE]
    /\ readyCh' = readyCh + 1
    /\ tunnel' = [tunnel EXCEPT ![t] = "waitCtx"]
    /\ UNCHANGED <<notFwd, mgr, got, fwdCtx, startErr, StopChan, pfReady, fwd>>

\* CNDPortForward.Start: `<-ctx.Done()`, close(p.StopChan), wg.Done
TunnelStop(t) ==
    /\ tunnel[t] = "waitCtx"
    /\ ~fwdCtx
    /\ StopChan' = [StopChan EXCEPT ![t] = FALSE]
    /\ tunnel' = [tunnel EXCEPT ![t] = "returned"]
    /\ UNCHANGED <<notFwd, mgr, got, readyCh, fwdCtx, startErr, IsReady, pfReady, fwd>>

\* pf.ForwardPorts: the connection is up and the listeners are open:
\* pf.Ready is closed.
PfListening(t) ==
    /\ fwd[t] = "dialing"
    /\ pfReady' = [pfReady EXCEPT ![t] = TRUE]
    /\ fwd' = [fwd EXCEPT ![t] = "forwarding"]
    /\ UNCHANGED <<notFwd, mgr, got, readyCh, fwdCtx, tunnel, startErr, IsReady,
                   StopChan>>

\* What forwardPorts does with the result of pf.ForwardPorts: it logs and
\* returns in every case.
forwardPorts(err) ==
    CASE err = "lost connection to pod" -> "lost"
      [] err = "nil" -> "closed"
      [] OTHER -> "error"

\* pf.ForwardPorts returns an error: forwardPorts logs it and returns.
PfError(t) ==
    /\ Open(t)
    /\ \E err \in IF fwd[t] = "dialing"
                  THEN {"error upgrading connection", "unable to listen on any port"}
                  ELSE {"lost connection to pod"} :
         fwd' = [fwd EXCEPT ![t] = forwardPorts(err)]
    /\ UNCHANGED <<notFwd, mgr, got, readyCh, fwdCtx, tunnel, startErr, IsReady,
                   StopChan, pfReady>>

\* pf.ForwardPorts returns nil once the stop channel is closed.
PfStopped(t) ==
    /\ Open(t)
    /\ ~StopChan[t]
    /\ fwd' = [fwd EXCEPT ![t] = forwardPorts("nil")]
    /\ UNCHANGED <<notFwd, mgr, got, readyCh, fwdCtx, tunnel, startErr, IsReady,
                   StopChan, pfReady>>

NextFwd ==
    \/ FwdStart \/ FwdReceiveReady \/ FwdReturn \/ FwdCancel
    \/ \E t \in Forwards :
         \/ TunnelSetup(t) \/ TunnelReady(t) \/ TunnelStop(t)
         \/ PfListening(t) \/ PfError(t) \/ PfStopped(t)

SpecFwd == InitFwd /\ [][NextFwd]_vars

\* The forwarder with its goroutines scheduled: a step of Forwarder.Start or
\* of a goroutine that stays possible is eventually taken.
SpecFwdLive ==
    /\ SpecFwd
    /\ WF_vars(FwdStart) /\ WF_vars(FwdReceiveReady) /\ WF_vars(FwdReturn)
    /\ \A t \in Forwards :
          /\ WF_vars(TunnelSetup(t)) /\ WF_vars(TunnelReady(t))
          /\ WF_vars(TunnelStop(t))
          /\ WF_vars(PfListening(t)) /\ WF_vars(PfStopped(t))

----------------------------------------------------------------------------
(***************************************************************************)
(* The local synchroniser (pkg/syncthing: Run, Stop, cleanupDaemon).       *)
(* Several invocations of the program, each a process of its own, start a  *)
(* synchroniser on the same home directory; the PID file of the home is    *)
(* what they share.  The activation variables are not followed here.      *)
(***************************************************************************)

InitSy ==
    /\ UpInit /\ deployment = "dev" /\ FwdIdle /\ ShIdle /\ ProgIdle /\ TrIdle /\ BnIdle /\ FwIdle /\ GcIdle /\ RlIdle /\ FxIdle /\ MnIdle /\ CcIdle /\ DcIdle /\ WrIdle /\ LhIdle
    /\ goos \in {"unix", "windows"}
    /\ pidFile \in {0, OldPid}
    /\ alive \in {f \in [Pids -> BOOLEAN] :
                    /\ \A a \in Runs : ~f[a]
                    /\ f[OldPid] => pidFile = OldPid}
    /\ signalled = [p \in Pids |-> FALSE]
    /\ syPc = [a \in Runs |-> "none"]
    /\ syIn = [a \in Runs |-> "Run"]
    /\ syPid = [a \in Runs |-> 0]
    /\ sySent = [a \in Runs |-> FALSE]

\* cleanupDaemon returns nil to its caller: Run goes on to start the child,
\* Stop returns.
cleanupReturns(a) ==
    syPc' = [syPc EXCEPT ![a] = IF syIn[a] = "Run" THEN "start" ELSE "stopped"]

\* Run: s.initConfig()
SyInitConfig(a) ==
    /\ syPc[a] = "none"
    /\ \E ok \in BOOLEAN :
         syPc' = [syPc EXCEPT ![a] = IF ok THEN "cleanup" ELSE "failed"]
    /\ UNCHANGED <<notSy, goos, pidFile, alive, signalled, syIn, syPid, sySent>>

\* cleanupDaemon: the test of runtime.GOOS, then getPID(pidPath)
SyGetPID(a) ==
    /\ syPc[a] = "cleanup"
    /\ IF goos = "windows" \/ pidFile = 0
       THEN cleanupReturns(a) /\ UNCHANGED syPid
       ELSE /\ syPid' = [syPid EXCEPT ![a] = pidFile]
            /\ syPc' = [syPc EXCEPT ![a] = "signal"]
    /\ UNCHANGED <<notSy, goos, pidFile, alive, signalled, syIn, sySent>>

\* cleanupDaemon: proc.Signal(os.Interrupt); "process already finished" is
\* what it returns for a process that does not exist.
SySignal(a) ==
    /\ syPc[a] = "signal"
    /\ IF alive[syPid[a]]
       THEN /\ signalled' = [signalled EXCEPT ![syPid[a]] = TRUE]
            /\ sySent' = [sySent EXCEPT ![a] = TRUE]
            /\ syPc' = [syPc EXCEPT ![a] = "wait"]
       ELSE /\ cleanupReturns(a)
            /\ UNCHANGED <<signalled, sySent>>
    /\ UNCHANGED <<notSy, goos, pidFile, alive, syIn, syPid>>

\* proc.Wait() of process a for pid p lasts until p has exited when p is a
\* child of a; for any other process it returns at once with an error.
WaitReturns(a, p) == p = a => ~alive[p]

\* cleanupDaemon: the deferred proc.Wait(), its result dropped
SyWait(a) ==
    /\ syPc[a] = "wait"
    /\ WaitReturns(a, syPid[a])
    /\ cleanupReturns(a)
    /\ UNCHANGED <<notSy, goos, pidFile, alive, signalled, syIn, syPid, sySent>>

\* Run: s.cmd.Start()
SyCmdStart(a) ==
    /\ syPc[a] = "start"
    /\ \/ /\ alive' = [alive EXCEPT ![a] = TRUE]
          /\ syPc' = [syPc EXCEPT ![a] = "writePid"]
       \/ /\ syPc' = [syPc EXCEPT ![a] = "failed"]
          /\ UNCHANGED alive
    /\ UNCHANGED <<notSy, goos, pidFile, signalled, syIn, syPid, sySent>>

\* Run: ioutil.WriteFile(pidPath, pid), then the goroutine that waits for
\* the context, and return nil
SyWritePid(a) ==
    /\ syPc[a] = "writePid"
    /\ \/ /\ pidFile' = a
          /\ syPc' = [syPc EXCEPT ![a] = "running"]
       \/ /\ syPc' = [syPc EXCEPT ![a] = "failed"]
          /\ UNCHANGED pidFile
    /\ UNCHANGED <<notSy, goos, alive, signalled, syIn, syPid, sySent>>

\* Run's goroutine: `<-ctx.Done()`, then s.Stop()
SyCtxDone(a) ==
    /\ syPc[a] = "running"
    /\ syPc' = [syPc EXCEPT ![a] = "cleanup"]
    /\ syIn' = [syIn EXCEPT ![a] = "Stop"]
    /\ syPid' = [syPid EXCEPT ![a] = 0]
    /\ sySent' = [sySent EXCEPT ![a] = FALSE]
    /\ UNCHANGED <<notSy, goos, pidFile, alive, signalled>>

\* A synchroniser that was sent os.Interrupt exits.
SyChildExit(p) ==
    /\ alive[p] /\ signalled[p]
    /\ alive' = [alive EXCEPT ![p] = FALSE]
    /\ UNCHANGED <<notSy, goos, pidFile, signalled, syPc, syIn, syPid, sySent>>

NextSy ==
    \/ \E a \in Runs :
         \/ SyInitConfig(a) \/ SyGetPID(a) \/ SySignal(a) \/ SyWait(a)
         \/ SyCmdStart(a) \/ SyWritePid(a) \/ SyCtxDone(a)
    \/ \E p \in Pids : SyChildExit(p)

SpecSy == InitSy /\ [][NextSy]_vars

----------------------------------------------------------------------------
(***************************************************************************)
(* The shutdown sequence, step by step (cmd/up.go: RunUp's select and its  *)
(* deferred up.shutdown(), and the end of Activate's wait).  The           *)
(* activation is taken at some point of its first cycle; what it has       *)
(* assigned so far decides which steps shutdown() has to do.               *)
(***************************************************************************)

\* How far Activate has come: up.Cancel, up.Sy and up.Forwarder are assigned
\* in this order.
NothingSet == 0
CancelSet == 1
SySet == 2
ForwarderSet == 3

InitShut ==
    /\ UpInit /\ deployment = "dev" /\ FwdIdle /\ SyIdle /\ ProgIdle /\ TrIdle /\ BnIdle /\ FwIdle /\ GcIdle /\ RlIdle /\ FxIdle /\ MnIdle /\ CcIdle /\ DcIdle /\ WrIdle /\ LhIdle
    /\ shCfg \in [remote : BOOLEAN, term : BOOLEAN,
                  assigned : NothingSet..ForwarderSet]
    /\ shAct = IF shCfg.assigned = ForwarderSet THEN "wait" ELSE "activating"
    /\ shExit = "none"
    /\ shPc = "select"
    /\ shCause = "none"
    /\ shLog = <<>>
    /\ shFail = {}
    /\ shRet = "none"

\* Activate: a step of the activation fails: `up.Exit <- err; return`
ShActivateFails ==
    /\ shPc # "returned"
    /\ shAct = "activating"
    /\ shExit' = "Error"
    /\ shAct' = "returned"
    /\ UNCHANGED <<notSh, shCfg, shPc, shCause, shLog, shFail, shRet>>

\* Activate: WaitUntilExitOrInterrupt returns with the result of the
\* command, the terminal is restored when stdin is one, and the result is
\* sent on Exit.
ShWaitReturns ==
    /\ shPc # "returned"
    /\ shAct = "wait"
    /\ shLog' = IF shCfg.term THEN Append(shLog, "tty") ELSE shLog
    /\ \E r \in {"nil", ErrCommandFailed} : shExit' = r
    /\ shAct' = "returned"
    /\ UNCHANGED <<notSh, shCfg, shPc, shCause, shFail, shRet>>

\* RunUp's select: `case <-stop`
ShCtrlC ==
    /\ shPc = "select"
    /\ shCause' = "ctrlc"
    /\ shPc' = "cancel"
    /\ UNCHANGED <<notSh, shCfg, shAct, shExit, shLog, shFail, shRet>>

\* RunUp's select: `case err := <-up.Exit`
ShExit ==
    /\ shPc = "select"
    /\ shExit # "none"
    /\ shCause' = shExit
    /\ shPc' = "cancel"
    /\ UNCHANGED <<notSh, shCfg, shAct, shExit, shLog, shFail, shRet>>

\* shutdown: `if up.Cancel != nil { up.Cancel() }`
ShCancel ==
    /\ shPc = "cancel"
    /\ shLog' = IF shCfg.assigned >= CancelSet THEN Append(shLog, "cancel") ELSE shLog
    /\ shPc' = "ssh"
    /\ UNCHANGED <<notSh, shCfg, shAct, shExit, shCause, shFail, shRet>>

\* shutdown: ssh.RemoveEntry in remote mode; an error is logged
ShRemoveEntry ==
    /\ shPc = "ssh"
    /\ IF shCfg.remote
       THEN /\ shLog' = Append(shLog, "ssh")
            /\ \E ok \in BOOLEAN : shFail' = IF ok THEN shFail ELSE shFail \cup {"ssh"}
       ELSE UNCHANGED <<shLog, shFail>>
    /\ shPc' = "sy"
    /\ UNCHANGED <<notSh, shCfg, shAct, shExit, shCause, shRet>>

\* shutdown: up.Sy.Stop when up.Sy is not nil; an error is logged
ShSyStop ==
    /\ shPc = "sy"
    /\ IF shCfg.assigned >= SySet
       THEN /\ shLog' = Append(shLog, "sy")
            /\ \E ok \in BOOLEAN : shFail' = IF ok THEN shFail ELSE shFail \cup {"sy"}
       ELSE UNCHANGED <<shLog, shFail>>
    /\ shPc' = "fwd"
    /\ UNCHANGED <<notSh, shCfg, shAct, shExit, shCause, shRet>>

\* Mutant of RunUpReturn: an error of a shutdown step replaces the result.
RunUpReturn_Masked(cause) ==
    IF shFail # {} THEN "ShutdownError"
    ELSE IF cause = "ctrlc" THEN "nil" ELSE cause

\* What RunUp returns when its select ended with cause: nil after the
\* interrupt, else the value received on Exit.
RunUpReturn(cause) == IF cause = "ctrlc" THEN "nil" ELSE cause

\* shutdown: up.Forwarder.Stop() when up.Forwarder is not nil; shutdown
\* returns and RunUp returns its result.
ShFwdStop ==
    /\ shPc = "fwd"
    /\ shLog' = IF shCfg.assigned >= ForwarderSet THEN Append(shLog, "fwd") ELSE shLog
    /\ shRet' = RunUpReturn(shCause)
    /\ shPc' = "returned"
    /\ UNCHANGED <<notSh, shCfg, shAct, shExit, shCause, shFail>>

NextShut ==
    \/ ShActivateFails \/ ShWaitReturns
    \/ ShCtrlC \/ ShExit
    \/ ShCancel \/ ShRemoveEntry \/ ShSyStop \/ ShFwdStop

SpecShut == InitShut /\ [][NextShut]_vars

----------------------------------------------------------------------------
(***************************************************************************)
(* The progress reader of synchronizeFiles (cmd/up.go): the goroutine that *)
(* receives completion values on `reporter` and renders the progress bar.  *)
(* The values are compared only; they are taken from a few levels.         *)
(***************************************************************************)

InitProg ==
    /\ UpInit /\ deployment = "dev" /\ FwdIdle /\ SyIdle /\ ShIdle /\ TrIdle /\ BnIdle /\ FwIdle /\ GcIdle /\ RlIdle /\ FxIdle /\ MnIdle /\ CcIdle /\ DcIdle /\ WrIdle /\ LhIdle
    /\ prPc = "tick"
    /\ previous = 0
    /\ received = <<>>
    /\ rendered = <<>>

\* The reader: `<-time.NewTicker(2 * time.Second).C`
PrTick ==
    /\ prPc = "tick"
    /\ prPc' = "range"
    /\ UNCHANGED <<notProg, previous, received, rendered>>

\* Mutant of ShouldRender: every value is rendered.
ShouldRender_Always(c, prev) == TRUE

\* The reader: `if c > previous`
ShouldRender(c, prev) == c > prev

\* The reader: one iteration of `for c := range reporter`
PrReceive ==
    /\ prPc = "range"
    /\ Len(received) < MaxReports
    /\ \E c \in Levels :
         /\ received' = Append(received, c)
         /\ IF ShouldRender(c, previous)
            THEN /\ rendered' = Append(rendered, c)
                 /\ previous' = c
            ELSE UNCHANGED <<rendered, previous>>
    /\ UNCHANGED <<notProg, prPc>>

NextProg == PrTick \/ PrReceive

SpecProg == InitProg /\ [][NextProg]_vars

----------------------------------------------------------------------------
(***************************************************************************)
(* The translation of a deployment into its dev-mode form (model/dev.go:   *)
(* Dev.Deployment, updateCndContainer, createSyncthingContainer,           *)
(* createSyncthingVolume) and its restoration by `down`.  A deployment is  *)
(* a record of the parts the translation reads or writes.                  *)
(***************************************************************************)

\* The containers a deployment of the manifest may have.
OrigContainers ==
    [name : {"api", "db"}, image : {"prod"}, pullPolicy : {"Always"},
     command : {"run"}, workdir : {"/app"}, mounts : {<<>>, <<"data">>}]

\* The deployments the translation is given.
OrigDeployments ==
    [name : {"web"}, cnd : {"none"},
     containers : {<<c>> : c \in OrigContainers}
                  \cup {<<c1, c2>> : c1 \in OrigContainers, c2 \in OrigContainers},
     volumes : {<<>>, <<"data">>},
     captured : {"none"}]

\* The manifests: swap.deployment.container may be empty.
Devs ==
    [name : {"web"}, container : {"", "api", "db"}, image : {"dev"},
     command : {"tail"}, target : {"/src"}]

\* updateCndContainer
updateCndContainer(c, dev) ==
    [c EXCEPT !.image = dev.image,
              !.pullPolicy = "IfNotPresent",
              !.command = dev.command,
              !.workdir = dev.target,
              !.mounts = Append(@, "cnd-sync")]

\* The container createSyncthingContainer appends.
SyncthingContainer ==
    [name |-> "cnd-syncthing", image |-> "okteto/syncthing:latest",
     pullPolicy |-> "", command |-> "", workdir |-> "",
     mounts |-> <<"cnd-sync">>]

\* createSyncthingContainer
createSyncthingContainer(cs) == Append(cs, SyncthingContainer)

\* createSyncthingVolume
createSyncthingVolume(vs) == Append(vs, "cnd-sync")

\* Dev.Deployment: the loop over the containers stops at the first whose
\* name is the manifest's, or at the first one when the manifest names none.
Selected(cs, dev) ==
    {i \in 1..Len(cs) :
        /\ cs[i].name = dev.container \/ dev.container = ""
        /\ \A j \in 1..(i - 1) : ~(cs[j].name = dev.container \/ dev.container = "")}

\* Dev.Deployment applied to deployment dep: name and label, the selected
\* container, the synchroniser container and the volume.
Translate(dep, dev) ==
    [name |-> dev.name,
     cnd |-> dev.name,
     containers |->
        createSyncthingContainer(
            [i \in 1..Len(dep.containers) |->
                IF i \in Selected(dep.containers, dev)
                THEN updateCndContainer(dep.containers[i], dev)
                ELSE dep.containers[i]]),
     volumes |-> createSyncthingVolume(dep.volumes),
     captured |-> dep.captured]

\* `down` restores the deployment from the annotation that captured the
\* original and removes the annotation; without one there is nothing to
\* restore from.
Restore(dep) ==
    IF dep.captured = "none" THEN dep
    ELSE [dep.captured EXCEPT !.captured = "none"]

InitTr ==
    /\ UpInit /\ deployment = "dev" /\ FwdIdle /\ SyIdle /\ ShIdle /\ ProgIdle /\ BnIdle /\ FwIdle /\ GcIdle /\ RlIdle /\ FxIdle /\ MnIdle /\ CcIdle /\ DcIdle /\ WrIdle /\ LhIdle
    /\ trDev \in Devs
    /\ trOrig \in OrigDeployments
    /\ trD = trOrig
    /\ trOps = <<>>

\* `up`: the deployment is translated
TrTranslate ==
    /\ Len(trOps) < MaxOps
    /\ trD' = Translate(trD, trDev)
    /\ trOps' = Append(trOps, "translate")
    /\ UNCHANGED <<notTr, trDev, trOrig>>

\* `down`: the deployment is restored
TrRestore ==
    /\ Len(trOps) < MaxOps
    /\ trOps # <<>>
    /\ trD' = Restore(trD)
    /\ trOps' = Append(trOps, "restore")
    /\ UNCHANGED <<notTr, trDev, trOrig>>

NextTr == TrTranslate \/ TrRestore

SpecTr == InitTr /\ [][NextTr]_vars

----------------------------------------------------------------------------
(***************************************************************************)
(* The forward bundle and the SSH entry: RunUp's call of LoadRemote,       *)
(* devMode from NewPortForwardManager to ssh.AddEntry, and the removal of  *)
(* the entry by shutdown.                                                  *)
(***************************************************************************)

\* syncthing.ClusterPort and syncthing.GUIPort, the pod's SSH port, and the
\* port LoadRemote takes when the manifest has none.
ClusterPort == 22000
GUIPort == 8384
SSHPort == 22
DefaultRemotePort == 2222

\* UpContext.remotePort: RunUp builds the UpContext with Dev and Exit only,
\* and nothing assigns the field afterwards.
remotePort == 0

\* Number of forwards a manifest declares at most.
MaxDeclared == 2

\* The i-th forward of a manifest.
DeclaredForward(i) == [Local |-> 8080 + i, Remote |-> 8080 + i]

\* UpContext.remoteModeEnabled
remoteModeEnabled(dev) == dev.RemotePort > 0

\* Mutant of RemoteModeEnabled: reverse forwards alone do not enable it.
RemoteModeEnabled_PortOnly(dev) == dev.RemotePort > 0

\* Dev.RemoteModeEnabled
RemoteModeEnabled(dev) ==
    IF dev.RemotePort > 0 THEN TRUE ELSE dev.RemoteForward

\* Dev.LoadRemote
LoadRemote(dev) ==
    LET port == IF dev.RemotePort = 0 THEN DefaultRemotePort ELSE dev.RemotePort
    IN  [dev EXCEPT !.RemotePort = port,
                    !.Forward = Append(@, [Local |-> port, Remote |-> SSHPort])]

\* RunUp is entered with the manifest loaded; the --remote flag has been
\* copied into RemotePort.
InitBn ==
    /\ UpInit /\ deployment = "dev" /\ FwdIdle /\ SyIdle /\ ShIdle /\ ProgIdle /\ TrIdle /\ FwIdle /\ GcIdle /\ RlIdle /\ FxIdle /\ MnIdle /\ CcIdle /\ DcIdle /\ WrIdle /\ LhIdle
    /\ \E n \in 0..MaxDeclared : declared = [i \in 1..n |-> DeclaredForward(i)]
    /\ Dev \in [RemotePort : {0, DefaultRemotePort, DefaultRemotePort + 1},
                RemoteForward : BOOLEAN,
                Forward : {declared}]
    /\ Sy \in [RemotePort : {40001}, RemoteGUIPort : {40002, 40003}]
    /\ ports = <<>>
    /\ sshEntry = {}
    /\ bnPc = "runup"
    /\ bnIdx = 0
    /\ bnFail = "none"
    /\ bnCycle = 0

\* RunUp: LoadRemote when remote mode is enabled
BnLoadRemote ==
    /\ bnPc = "runup"
    /\ Dev' = IF remoteModeEnabled(Dev) THEN LoadRemote(Dev) ELSE Dev
    /\ bnPc' = "cycle"
    /\ UNCHANGED <<notBn, declared, Sy, ports, sshEntry, bnIdx, bnFail, bnCycle>>

\* devMode: a new forwarder for the cycle
BnNewPortForwardManager ==
    /\ bnPc = "cycle"
    /\ ports' = <<>>
    /\ bnIdx' = 1
    /\ bnCycle' = bnCycle + 1
    /\ bnPc' = "forward"
    /\ UNCHANGED <<notBn, Dev, declared, Sy, sshEntry, bnFail>>

\* devMode returns the error of the call named by `call`
BnReturns(call) ==
    /\ bnFail' = call
    /\ bnPc' = "failed"
    /\ UNCHANGED <<ports, bnIdx>>

\* the loop over up.Dev.Forward: Add of the next forward
BnAddForward ==
    /\ bnPc = "forward"
    /\ bnIdx <= Len(Dev.Forward)
    /\ \/ /\ ports' = Append(ports, Dev.Forward[bnIdx])
          /\ bnIdx' = bnIdx + 1
          /\ UNCHANGED <<bnPc, bnFail>>
       \/ BnReturns("forward")
    /\ UNCHANGED <<notBn, Dev, declared, Sy, sshEntry, bnCycle>>

\* Add of the synchroniser's cluster port, after the loop
BnAddClusterPort ==
    /\ bnPc = "forward"
    /\ bnIdx > Len(Dev.Forward)
    /\ \/ /\ ports' = Append(ports, [Local |-> Sy.RemotePort, Remote |-> ClusterPort])
          /\ bnPc' = "gui"
          /\ UNCHANGED <<bnIdx, bnFail>>
       \/ BnReturns("cluster")
    /\ UNCHANGED <<notBn, Dev, declared, Sy, sshEntry, bnCycle>>

\* Add of the synchroniser's GUI port
BnAddGUIPort ==
    /\ bnPc = "gui"
    /\ \/ /\ ports' = Append(ports, [Local |-> Sy.RemoteGUIPort, Remote |-> GUIPort])
          /\ bnPc' = "start"
          /\ UNCHANGED <<bnIdx, bnFail>>
       \/ BnReturns("gui")
    /\ UNCHANGED <<notBn, Dev, declared, Sy, sshEntry, bnCycle>>

\* up.Forwarder.Start
BnForwarderStart ==
    /\ bnPc = "start"
    /\ \/ /\ bnPc' = "ssh"
          /\ UNCHANGED <<ports, bnIdx, bnFail>>
       \/ BnReturns("start")
    /\ UNCHANGED <<notBn, Dev, declared, Sy, sshEntry, bnCycle>>

\* ssh.AddEntry(up.Dev.Name, up.remotePort) when remote mode is enabled
BnAddEntry ==
    /\ bnPc = "ssh"
    /\ IF remoteModeEnabled(Dev)
       THEN \/ /\ sshEntry' = {remotePort}
               /\ bnPc' = "ready"
               /\ UNCHANGED <<ports, bnIdx, bnFail>>
            \/ /\ BnReturns("ssh")
               /\ UNCHANGED sshEntry
       ELSE /\ bnPc' = "ready"
            /\ UNCHANGED <<sshEntry, ports, bnIdx, bnFail>>
    /\ UNCHANGED <<notBn, Dev, declared, Sy, bnCycle>>

\* shutdown: ssh.RemoveEntry(up.Dev.Name) when remote mode is enabled
RemoveEntry(dev, entries) == IF remoteModeEnabled(dev) THEN {} ELSE entries

\* Activate: the connection is lost, shutdown, and the loop continues
BnReconnect ==
    /\ bnPc = "ready"
    /\ bnCycle < MaxCycles
    /\ sshEntry' = RemoveEntry(Dev, sshEntry)
    /\ bnPc' = "cycle"
    /\ UNCHANGED <<notBn, Dev, declared, Sy, ports, bnIdx, bnFail, bnCycle>>

\* RunUp returns (Ctrl-C, or a value on Exit): the deferred shutdown
BnShutdown ==
    /\ bnPc \in {"ready", "failed"}
    /\ sshEntry' = RemoveEntry(Dev, sshEntry)
    /\ bnPc' = "done"
    /\ UNCHANGED <<notBn, Dev, declared, Sy, ports, bnIdx, bnFail, bnCycle>>

NextBn ==
    \/ BnLoadRemote \/ BnNewPortForwardManager
    \/ BnAddForward \/ BnAddClusterPort \/ BnAddGUIPort
    \/ BnForwarderStart \/ BnAddEntry
    \/ BnReconnect \/ BnShutdown

SpecBn == InitBn /\ [][NextBn]_vars

----------------------------------------------------------------------------
(***************************************************************************)
(* The forward strings of a manifest: Forward's YAML unmarshalling and     *)
(* marshalling, as the cases of TestForward_UnmarshalYAML and              *)
(* TestForward_MarshalYAML fix them.  A string is a sequence of            *)
(* characters; a number is read and written in decimal.                    *)
(***************************************************************************)

\* Length of the strings that are unmarshalled.
MaxStr == 5

\* The characters of those strings: two digits, a letter, the separator.
Chars == {"0", "8", "s", ":"}

Digit10 == <<"0", "1", "2", "3", "4", "5", "6", "7", "8", "9">>

IsDigit(c) == \E k \in 1..10 : Digit10[k] = c

DigitValue(c) == (CHOOSE k \in 1..10 : Digit10[k] = c) - 1

\* The segment is a decimal number.
IsNumber(seg) == seg # <<>> /\ \A i \in 1..Len(seg) : IsDigit(seg[i])

\* The value of a decimal number.
RECURSIVE Atoi(_)
Atoi(seg) ==
    IF seg = <<>> THEN 0
    ELSE 10 * Atoi(SubSeq(seg, 1, Len(seg) - 1)) + DigitValue(seg[Len(seg)])

\* The decimal digits of a number (%d).
RECURSIVE Itoa(_)
Itoa(n) ==
    IF n < 10 THEN <<Digit10[n + 1]>>
    ELSE Itoa(n \div 10) \o <<Digit10[(n % 10) + 1]>>

\* The segments of a string between its separators.
RECURSIVE Split(_)
Split(s) ==
    IF \A i \in 1..Len(s) : s[i] # ":" THEN <<s>>
    ELSE LET i == CHOOSE k \in 1..Len(s) :
                      s[k] = ":" /\ \A j \in 1..(k - 1) : s[j] # ":"
         IN  <<SubSeq(s, 1, i - 1)>> \o Split(SubSeq(s, i + 1, Len(s)))

\* The string is rejected.
Rejected == [err |-> TRUE]

\* The string is accepted as Forward f.
Accepted(f) == [err |-> FALSE, f |-> f]

\* The check of the middle segment of a three-part string left out.
MiddleIsNumber_Ignored(seg) == FALSE

\* The middle segment of a three-part string is a number, not a service.
MiddleIsNumber(seg) == IsNumber(seg)

\* Forward.UnmarshalYAML
UnmarshalYAML(s) ==
    LET parts == Split(s) IN
    IF Len(parts) \notin {2, 3} \/ ~IsNumber(parts[1]) THEN Rejected
    ELSE IF Len(parts) = 2
    THEN IF IsNumber(parts[2])
         THEN Accepted([Local |-> Atoi(parts[1]), Remote |-> Atoi(parts[2]),
                        Service |-> FALSE, ServiceName |-> <<>>])
         ELSE Accepted([Local |-> Atoi(parts[1]), Remote |-> 0,
                        Service |-> TRUE, ServiceName |-> parts[2]])
    ELSE IF MiddleIsNumber(parts[2]) \/ ~IsNumber(parts[3]) THEN Rejected
    ELSE Accepted([Local |-> Atoi(parts[1]), Remote |-> Atoi(parts[3]),
                   Service |-> TRUE, ServiceName |-> parts[2]])

\* The port of a service written also when it is 0.
MarshalYAML_AlwaysPort(f) ==
    IF f.Service
    THEN Itoa(f.Local) \o <<":">> \o f.ServiceName \o <<":">> \o Itoa(f.Remote)
    ELSE Itoa(f.Local) \o <<":">> \o Itoa(f.Remote)

\* Forward.MarshalYAML
MarshalYAML(f) ==
    IF f.Service
    THEN IF f.Remote = 0
         THEN Itoa(f.Local) \o <<":">> \o f.ServiceName
         ELSE Itoa(f.Local) \o <<":">> \o f.ServiceName \o <<":">> \o Itoa(f.Remote)
    ELSE Itoa(f.Local) \o <<":">> \o Itoa(f.Remote)

\* The strings of at most n characters.
RECURSIVE Strings(_)
Strings(n) ==
    IF n = 0 THEN {<<>>}
    ELSE LET shorter == Strings(n - 1)
         IN  shorter \cup {Append(s, c) : s \in shorter, c \in Chars}

InitFw ==
    /\ UpInit /\ deployment = "dev" /\ FwdIdle /\ SyIdle /\ ShIdle /\ ProgIdle /\ TrIdle /\ BnIdle /\ GcIdle /\ RlIdle /\ FxIdle /\ MnIdle /\ CcIdle /\ DcIdle /\ WrIdle /\ LhIdle
    /\ data \in Strings(MaxStr)
    /\ fwPc = "unmarshal"
    /\ result = "none"
    /\ out = <<>>
    /\ back = "none"

\* yaml.Unmarshal(data, &result)
FwUnmarshal ==
    /\ fwPc = "unmarshal"
    /\ result' = UnmarshalYAML(data)
    /\ fwPc' = IF result'.err THEN "done" ELSE "marshal"
    /\ UNCHANGED <<notFw, data, out, back>>

\* yaml.Marshal(result)
FwMarshal ==
    /\ fwPc = "marshal"
    /\ out' = MarshalYAML(result.f)
    /\ fwPc' = "again"
    /\ UNCHANGED <<notFw, data, result, back>>

\* the marshalled string is unmarshalled again
FwUnmarshalAgain ==
    /\ fwPc = "again"
    /\ back' = UnmarshalYAML(out)
    /\ fwPc' = "done"
    /\ UNCHANGED <<notFw, data, result, out>>

NextFw == FwUnmarshal \/ FwMarshal \/ FwUnmarshalAgain

SpecFw == InitFw /\ [][NextFw]_vars

----------------------------------------------------------------------------
(***************************************************************************)
(* One call of getCurrentDeployment, with its inputs kept: what            *)
(* deployments.Get answers, up.retry, the labels and the image of the      *)
(* manifest, OKTETO_AUTODEPLOY, the --deploy flag and the user's answer.   *)
(***************************************************************************)

OktetoAutoCreateAnnotation == "dev.okteto.com/auto-create"
DefaultImage == "okteto/desk:latest"

\* The images a manifest may name; "" is none.
Images == {"", "node:16"}

\* getCurrentDeployment calls askYesNo
asks(g, rtry, labels, envAuto, autoDeploy) ==
    /\ g # "found"
    /\ ~(~IsNotFound(g) \/ rtry)
    /\ ~labels
    /\ ~(envAuto \/ autoDeploy)

\* Mutant of GevSandbox: the image of the manifest is taken as it is.
GevSandbox_KeepsImage(image) ==
    [annotations |-> [a \in {OktetoAutoCreateAnnotation} |-> "true"],
     container |-> "dev",
     image |-> image]

\* Dev.GevSandbox
GevSandbox(image) ==
    [annotations |-> [a \in {OktetoAutoCreateAnnotation} |-> "true"],
     container |-> "dev",
     image |-> IF image = "" THEN DefaultImage ELSE image]

InitGc ==
    /\ UpInit /\ FwdIdle /\ SyIdle /\ ShIdle /\ ProgIdle /\ TrIdle /\ BnIdle /\ FwIdle /\ RlIdle /\ FxIdle /\ MnIdle /\ CcIdle /\ DcIdle /\ WrIdle /\ LhIdle
    /\ \E g \in GetOutcomes(deployment) :
          gcIn \in [g : {g}, retry : BOOLEAN, labels : BOOLEAN, image : Images,
                    envAuto : BOOLEAN, autoDeploy : BOOLEAN, answer : BOOLEAN]
    /\ gcPc = "call"
    /\ gcD = "none"
    /\ gcCreate = FALSE
    /\ gcErr = "none"
    /\ gcAsked = FALSE
    /\ gcExit = <<>>

\* up.getCurrentDeployment(autoDeploy)
GcCall ==
    /\ gcPc = "call"
    /\ LET r == getCurrentDeployment(deployment, gcIn.g, gcIn.retry, gcIn.labels,
                                     gcIn.envAuto, gcIn.autoDeploy, gcIn.answer)
       IN  /\ gcD' = IF r.d = "sandbox" THEN GevSandbox(gcIn.image) ELSE r.d
           /\ gcCreate' = create(r.d)
           /\ gcErr' = r.err
    /\ gcAsked' = asks(gcIn.g, gcIn.retry, gcIn.labels, gcIn.envAuto, gcIn.autoDeploy)
    /\ gcPc' = "returned"
    /\ UNCHANGED <<notGc, gcIn, gcExit>>

\* Activate, after the call: an error is sent on up.Exit and Activate
\* returns; otherwise it goes on to devMode.
GcActivate ==
    /\ gcPc = "returned"
    /\ IF gcErr # "nil"
       THEN gcExit' = Append(gcExit, gcErr) /\ gcPc' = "exited"
       ELSE gcExit' = gcExit /\ gcPc' = "devMode"
    /\ UNCHANGED <<notGc, gcIn, gcD, gcCreate, gcErr, gcAsked>>

NextGc == GcCall \/ GcActivate

SpecGc == InitGc /\ [][NextGc]_vars

----------------------------------------------------------------------------
(***************************************************************************)
(* The translation rules of a manifest (pkg/model/dev.go:                  *)
(* Dev.ToTranslationRule), for the manifest itself and for a service.      *)
(***************************************************************************)

oktetoSyncthingMountPath == "/var/syncthing"
oktetoMarkerPathVariable == "OKTETO_MARKER_PATH"
OktetoVolumeName == "okteto"

\* Dev.fullSubPath; a path is the sequence of its elements.
fullSubPath(dev, i, subPath) ==
    IF subPath = "" THEN <<dev.Name, "data", i>>
    ELSE <<dev.Name, "data", 0, subPath>>

\* Dev.syncthingSubPath
syncthingSubPath(dev) == <<dev.Name, "syncthing">>

\* The mounts of dev.Volumes, appended last.
VolumeRules(dev, main) ==
    [i \in 1..Len(dev.Volumes) |->
        [Name |-> OktetoVolumeName,
         MountPath |-> dev.Volumes[i].MountPath,
         SubPath |-> fullSubPath(main, i, dev.Volumes[i].SubPath)]]

\* Dev.ToTranslationRule(main); isMain is `main == dev`.
ToTranslationRule(dev, main, isMain) ==
    LET rule == [Container |-> dev.Container,
                 Image |-> dev.Image,
                 Environment |-> dev.Environment,
                 WorkDir |-> dev.WorkDir,
                 Volumes |-> <<[Name |-> OktetoVolumeName,
                                MountPath |-> dev.MountPath,
                                SubPath |-> fullSubPath(main, 0, dev.SubPath)]>>,
                 Marker |-> "",
                 Healthchecks |-> FALSE,
                 Command |-> <<>>,
                 Args |-> <<>>]
        first ==
            IF isMain
            THEN [rule EXCEPT
                    !.Marker = dev.DevPath,
                    !.Environment =
                        Append(@, [Name |-> oktetoMarkerPathVariable,
                                   Value |-> <<dev.MountPath, dev.DevPath>>]),
                    !.Volumes =
                        Append(@, [Name |-> OktetoVolumeName,
                                   MountPath |-> oktetoSyncthingMountPath,
                                   SubPath |-> syncthingSubPath(dev)]),
                    !.Healthchecks = FALSE,
                    !.Command = <<"/var/okteto/bin/start.sh">>,
                    !.Args = IF RemoteModeEnabled(main) THEN <<"-r">> ELSE <<>>]
            ELSE [rule EXCEPT
                    !.Healthchecks = TRUE,
                    !.Command = IF Len(dev.Command) > 0 THEN dev.Command ELSE @]
    IN  [first EXCEPT !.Volumes = @ \o VolumeRules(dev, main)]

\* The manifests and their services: the fields the rule is made from.
RuleDevs(names, commands) ==
    [Name : names, Container : {"dev"}, Image : {"node:16"},
     Environment : {<<>>, <<[Name |-> "A", Value |-> "1"]>>},
     WorkDir : {"/src"}, MountPath : {"/src"}, SubPath : {""}, DevPath : {"okteto.yml"},
     Volumes : {<<>>, <<[MountPath |-> "/data", SubPath |-> ""]>>},
     Command : commands,
     RemotePort : {0, DefaultRemotePort},
     RemoteForward : BOOLEAN]

InitRl ==
    /\ UpInit /\ deployment = "dev" /\ FwdIdle /\ SyIdle /\ ShIdle /\ ProgIdle /\ TrIdle /\ BnIdle /\ FwIdle /\ GcIdle /\ FxIdle /\ MnIdle /\ CcIdle /\ DcIdle /\ WrIdle /\ LhIdle
    /\ rlMain \in RuleDevs({"api"}, {<<"bash">>})
    /\ rlService \in {s \in RuleDevs({"worker"}, {<<>>, <<"run">>}) :
                        s.RemotePort = 0 /\ ~s.RemoteForward}
    /\ rules = <<>>

\* the rule of the manifest: dev.ToTranslationRule(dev)
RlMainRule ==
    /\ "main" \notin DOMAIN rules
    /\ rules' = [r \in DOMAIN rules \cup {"main"} |->
                    IF r = "main" THEN ToTranslationRule(rlMain, rlMain, TRUE)
                    ELSE rules[r]]
    /\ UNCHANGED <<notRl, rlMain, rlService>>

\* the rule of the service: s.ToTranslationRule(dev)
RlServiceRule ==
    /\ "service" \notin DOMAIN rules
    /\ rules' = [r \in DOMAIN rules \cup {"service"} |->
                    IF r = "service" THEN ToTranslationRule(rlService, rlMain, FALSE)
                    ELSE rules[r]]
    /\ UNCHANGED <<notRl, rlMain, rlService>>

NextRl == RlMainRule \/ RlServiceRule

SpecRl == InitRl /\ [][NextRl]_vars

----------------------------------------------------------------------------
(***************************************************************************)
(* The mount source of a manifest: Dev.fixPath.  A path is the sequence of *)
(* its elements and whether it starts at the root; the paths are those of  *)
(* a Unix system and os.Getwd has answered.                                *)
(***************************************************************************)

\* Number of times fixPath is applied to a manifest.
MaxFix == 2

\* The elements of a mount source, and its length.
SourceElems == {"k8", ".", ".."}
MaxElems == 2

\* The sequences of at most n elements of S.
RECURSIVE SeqsUpTo(_, _)
SeqsUpTo(S, n) ==
    IF n = 0 THEN {<<>>}
    ELSE LET shorter == SeqsUpTo(S, n - 1)
         IN  shorter \cup {Append(s, e) : s \in shorter, e \in S}

\* Mutant of IsAbs: every path is taken as relative.
IsAbs_Never(p) == FALSE

\* filepath.IsAbs
IsAbs(p) == p.abs

\* The elements of path.Clean: "." is dropped, ".." takes the element before
\* it away, is dropped at the root and is kept at the start of a relative
\* path.
RECURSIVE CleanElems(_, _, _)
CleanElems(abs, done, rest) ==
    IF rest = <<>> THEN done
    ELSE LET e == Head(rest) IN
         IF e = "." THEN CleanElems(abs, done, Tail(rest))
         ELSE IF e = ".."
         THEN IF done # <<>> /\ done[Len(done)] # ".."
              THEN CleanElems(abs, SubSeq(done, 1, Len(done) - 1), Tail(rest))
              ELSE IF abs THEN CleanElems(abs, done, Tail(rest))
              ELSE CleanElems(abs, Append(done, e), Tail(rest))
         ELSE CleanElems(abs, Append(done, e), Tail(rest))

\* path.Clean: the empty relative path is "."
Clean(p) ==
    LET elems == CleanElems(p.abs, <<>>, p.elems)
    IN  [abs |-> p.abs,
         elems |-> IF ~p.abs /\ elems = <<>> THEN <<".">> ELSE elems]

\* path.Dir of the path of a file
Dir(p) == Clean([abs |-> p.abs, elems |-> SubSeq(p.elems, 1, Len(p.elems) - 1)])

\* path.Join of two and of three paths: the elements one after the other,
\* from the root if the first path is, then Clean
Join2(a, b) == Clean([abs |-> a.abs, elems |-> a.elems \o b.elems])
Join3(a, b, c) == Clean([abs |-> a.abs, elems |-> a.elems \o b.elems \o c.elems])

\* Dev.fixPath
fixPath(source, original, dir) ==
    IF ~IsAbs(source)
    THEN IF IsAbs(original)
         THEN Join2(Dir(original), source)
         ELSE Join3(dir, Dir(original), source)
    ELSE source

InitFx ==
    /\ UpInit /\ deployment = "dev" /\ FwdIdle /\ SyIdle /\ ShIdle /\ ProgIdle /\ TrIdle /\ BnIdle /\ FwIdle /\ GcIdle /\ RlIdle /\ MnIdle /\ CcIdle /\ DcIdle /\ WrIdle /\ LhIdle
    /\ given \in [abs : BOOLEAN, elems : SeqsUpTo(SourceElems, MaxElems)]
    /\ Source = given
    /\ originalPath \in [abs : BOOLEAN,
                         elems : {<<"cnd.yml">>, <<"cnd", "cnd.yml">>,
                                  <<"..", "cnd.yml">>}]
    /\ wd \in [abs : {TRUE}, elems : {<<"home">>, <<"home", "user">>}]
    /\ once = "none"
    /\ fixed = 0

\* loadDev: d.fixPath(devPath)
FxFixPath ==
    /\ fixed = 0
    /\ Source' = fixPath(Source, originalPath, wd)
    /\ once' = Source'
    /\ fixed' = 1
    /\ UNCHANGED <<notFx, given, originalPath, wd>>

\* fixPath applied to a manifest that was fixed already
FxFixPathAgain ==
    /\ 0 < fixed /\ fixed < MaxFix
    /\ Source' = fixPath(Source, originalPath, wd)
    /\ fixed' = fixed + 1
    /\ UNCHANGED <<notFx, given, originalPath, wd, once>>

NextFx == FxFixPath \/ FxFixPathAgain

SpecFx == InitFx /\ [][NextFx]_vars

----------------------------------------------------------------------------
(***************************************************************************)
(* The end of synchronizeFiles: WaitForCompletion, the switch of the       *)
(* folder type, the start of the monitor and the restart of the            *)
(* synchroniser.  The monitor polls the synchroniser and signals the       *)
(* disconnect after two polls in a row that fail; a poll made while the    *)
(* synchroniser restarts fails.                                            *)
(***************************************************************************)

\* Number of polls of the monitor that are followed.
MaxPolls == 5

InitMn ==
    /\ UpInit /\ deployment = "dev" /\ FwdIdle /\ SyIdle /\ ShIdle /\ ProgIdle /\ TrIdle /\ BnIdle /\ FwIdle /\ GcIdle /\ RlIdle /\ FxIdle /\ CcIdle /\ DcIdle /\ WrIdle /\ LhIdle
    /\ mnPc = "completion"
    /\ Type = "sendonly"
    /\ mnMonitor = "none"
    /\ mnRestart = "none"
    /\ polls = <<>>
    /\ mnDisconnect = FALSE

\* up.Sy.WaitForCompletion returns
MnWaitForCompletion ==
    /\ mnPc = "completion"
    /\ mnPc' \in {"updateConfig", "returned"}
    /\ UNCHANGED <<notMn, Type, mnMonitor, mnRestart, polls, mnDisconnect>>

\* up.Sy.Type = "sendreceive"; up.Sy.UpdateConfig()
MnUpdateConfig ==
    /\ mnPc = "updateConfig"
    /\ Type' = "sendreceive"
    /\ mnPc' \in {"goMonitor", "returned"}
    /\ UNCHANGED <<notMn, mnMonitor, mnRestart, polls, mnDisconnect>>

\* go up.Sy.Monitor(up.Context, up.Disconnect)
MnGoMonitor ==
    /\ mnPc = "goMonitor"
    /\ mnMonitor' = "polling"
    /\ mnPc' = "restart"
    /\ UNCHANGED <<notMn, Type, mnRestart, polls, mnDisconnect>>

\* up.Sy.Restart(up.Context) is called: the synchroniser goes down
MnRestartCall ==
    /\ mnPc = "restart"
    /\ mnRestart = "none"
    /\ mnRestart' = "running"
    /\ UNCHANGED <<notMn, mnPc, Type, mnMonitor, polls, mnDisconnect>>

\* up.Sy.Restart returns, and synchronizeFiles with it
MnRestartReturn ==
    /\ mnPc = "restart"
    /\ mnRestart = "running"
    /\ mnRestart' \in {"done", "failed"}
    /\ mnPc' = "returned"
    /\ UNCHANGED <<notMn, Type, mnMonitor, polls, mnDisconnect>>

\* The monitor signals after two polls in a row that failed.
TwoFailures(ps) ==
    Len(ps) >= 2 /\ ps[Len(ps)] = "fail" /\ ps[Len(ps) - 1] = "fail"

\* a poll of the monitor
MnPoll ==
    /\ mnMonitor = "polling"
    /\ Len(polls) < MaxPolls
    /\ \E p \in (IF mnRestart = "running" THEN {"fail"} ELSE {"ok", "fail"}) :
          polls' = Append(polls, p)
    /\ IF TwoFailures(polls')
       THEN mnDisconnect' = TRUE /\ mnMonitor' = "done"
       ELSE UNCHANGED <<mnDisconnect, mnMonitor>>
    /\ UNCHANGED <<notMn, mnPc, Type, mnRestart>>

NextMn ==
    \/ MnWaitForCompletion \/ MnUpdateConfig \/ MnGoMonitor
    \/ MnRestartCall \/ MnRestartReturn \/ MnPoll

SpecMn == InitMn /\ [][NextMn]_vars

----------------------------------------------------------------------------
(***************************************************************************)
(* The interrupt while Activate is inside devMode or sync.  RunUp leaves   *)
(* its select and runs the deferred shutdown, step by step, while the      *)
(* goroutine of Activate goes on; when RunUp has returned the process      *)
(* exits, which ends its goroutines and its forwards but not the           *)
(* synchroniser, a process of its own.                                     *)
(***************************************************************************)

\* The positions of Activate at which the interrupt is inside devMode or sync.
InDevModeOrSync == {"dm_pre", "dm_pod", "dm_start", "sync", "syncing"}

\* RunUp's deferred shutdown has run to its end.
ShutdownCompleted == ccRun \in {"completed", "exited"}

\* A read by shutdown of a field that Activate assigns without
\* synchronisation: the assigned value, or still nil.
FieldRead(assigned) == IF assigned THEN {TRUE, FALSE} ELSE {FALSE}

InitCc ==
    /\ UpInit /\ deployment = "dev" /\ FwdIdle /\ SyIdle /\ ShIdle /\ ProgIdle /\ TrIdle /\ BnIdle /\ FwIdle /\ GcIdle /\ RlIdle /\ FxIdle /\ MnIdle /\ DcIdle /\ WrIdle /\ LhIdle
    /\ ccAct = "dm_pre"
    /\ ccRun = "select"
    /\ ccCtx = TRUE
    /\ ccSy = FALSE
    /\ ccForwarder = "nil"
    /\ ccChild = "none"
    /\ ccStopper = "none"
    /\ ccLate = {}

\* What Activate starts counts as late when shutdown has completed.
Late(what) == IF ShutdownCompleted THEN ccLate \cup {what} ELSE ccLate

\* devMode: up.Sy, err = syncthing.New(up.Dev); up.Sy.Stop(true)
CcNewSy ==
    /\ ccAct = "dm_pre" /\ ccRun # "exited"
    /\ ccSy' = TRUE
    /\ ccAct' = "dm_pod"
    /\ UNCHANGED <<notCc, ccRun, ccCtx, ccForwarder, ccChild, ccStopper, ccLate>>

\* devMode: up.Forwarder = forward.NewPortForwardManager(up.Context, ...) and
\* the registration of the forwards
CcNewForwarder ==
    /\ ccAct = "dm_pod" /\ ccRun # "exited"
    /\ ccForwarder' = "created"
    /\ ccAct' = "dm_start"
    /\ UNCHANGED <<notCc, ccRun, ccCtx, ccSy, ccChild, ccStopper, ccLate>>

\* devMode: up.Forwarder.Start(up.Pod, up.Dev.Namespace)
CcForwarderStart ==
    /\ ccAct = "dm_start" /\ ccRun # "exited"
    /\ ccForwarder' = "open"
    /\ ccLate' = Late("forwarder")
    /\ ccAct' = "sync"
    /\ UNCHANGED <<notCc, ccRun, ccCtx, ccSy, ccChild, ccStopper>>

\* CNDPortForward.Start: <-ctx.Done(); close(p.StopChan)
CcForwardCtxDone ==
    /\ ccForwarder = "open" /\ ~ccCtx /\ ccRun # "exited"
    /\ ccForwarder' = "stopped"
    /\ UNCHANGED <<notCc, ccAct, ccRun, ccCtx, ccSy, ccChild, ccStopper, ccLate>>

\* startLocalSyncthing: up.Sy.Run(up.Context): the synchroniser is started
\* and a goroutine waits for the context
CcSyRun ==
    /\ ccAct = "sync" /\ ccRun # "exited"
    /\ ccChild' = "alive"
    /\ ccStopper' = "waiting"
    /\ ccLate' = Late("synchroniser")
    /\ ccAct' = "syncing"
    /\ UNCHANGED <<notCc, ccRun, ccCtx, ccSy, ccForwarder>>

\* the goroutine of Run: <-ctx.Done(); s.Stop()
CcStopper ==
    /\ ccStopper = "waiting" /\ ~ccCtx /\ ccRun # "exited"
    /\ ccChild' = "stopped"
    /\ ccStopper' = "done"
    /\ UNCHANGED <<notCc, ccAct, ccRun, ccCtx, ccSy, ccForwarder, ccLate>>

\* sync returns without error: Activate is past devMode and sync
CcSynced ==
    /\ ccAct = "syncing" /\ ccRun # "exited"
    /\ ccCtx
    /\ ccAct' = "waiting"
    /\ UNCHANGED <<notCc, ccRun, ccCtx, ccSy, ccForwarder, ccChild, ccStopper, ccLate>>

\* a call of devMode or sync fails, as calls given a cancelled context do:
\* up.Exit <- err; return
CcActFails ==
    /\ ccAct \in InDevModeOrSync /\ ccRun # "exited"
    /\ ccAct' = "returned"
    /\ UNCHANGED <<notCc, ccRun, ccCtx, ccSy, ccForwarder, ccChild, ccStopper, ccLate>>

\* RunUp's select: case <-stop, while Activate is inside devMode or sync
CcCtrlC ==
    /\ ccRun = "select" /\ ccAct \in InDevModeOrSync
    /\ ccRun' = "cancel"
    /\ UNCHANGED <<notCc, ccAct, ccCtx, ccSy, ccForwarder, ccChild, ccStopper, ccLate>>

\* shutdown: up.Cancel()
CcShutdownCancel ==
    /\ ccRun = "cancel"
    /\ ccCtx' = FALSE
    /\ ccRun' = "stopSy"
    /\ UNCHANGED <<notCc, ccAct, ccSy, ccForwarder, ccChild, ccStopper, ccLate>>

\* shutdown: if up.Sy != nil { up.Sy.Stop(false) }
CcShutdownSy ==
    /\ ccRun = "stopSy"
    /\ \E seen \in FieldRead(ccSy) :
          ccChild' = IF seen /\ ccChild = "alive" THEN "stopped" ELSE ccChild
    /\ ccRun' = "stopFw"
    /\ UNCHANGED <<notCc, ccAct, ccCtx, ccSy, ccForwarder, ccStopper, ccLate>>

\* shutdown: if up.Forwarder != nil { up.Forwarder.Stop() }
CcShutdownForwarder ==
    /\ ccRun = "stopFw"
    /\ \E seen \in FieldRead(ccForwarder # "nil") :
          ccForwarder' = IF seen /\ ccForwarder = "open" THEN "stopped" ELSE ccForwarder
    /\ ccRun' = "completed"
    /\ UNCHANGED <<notCc, ccAct, ccCtx, ccSy, ccChild, ccStopper, ccLate>>

\* RunUp has returned and the process exits: its goroutines and its
\* forwards end with it, the synchroniser does not
CcProcessExit ==
    /\ ccRun = "completed"
    /\ ccRun' = "exited"
    /\ ccAct' = "gone"
    /\ ccStopper' = IF ccStopper = "waiting" THEN "gone" ELSE ccStopper
    /\ ccForwarder' = IF ccForwarder = "open" THEN "stopped" ELSE ccForwarder
    /\ UNCHANGED <<notCc, ccCtx, ccSy, ccChild, ccLate>>

NextCc ==
    \/ CcNewSy \/ CcNewForwarder \/ CcForwarderStart \/ CcForwardCtxDone
    \/ CcSyRun \/ CcStopper \/ CcSynced \/ CcActFails
    \/ CcCtrlC \/ CcShutdownCancel \/ CcShutdownSy \/ CcShutdownForwarder
    \/ CcProcessExit

SpecCc == InitCc /\ [][NextCc]_vars

----------------------------------------------------------------------------
(***************************************************************************)
(* getDependentCyclic and dfs (pkg/model/utils.go) over the stacks with    *)
(* up to three names.  A range over a map yields its keys in any order:    *)
(* dfs is the set of the results it can have.  A name that depends on      *)
(* nothing in s.Services is looked up as a service without dependencies.   *)
(***************************************************************************)

\* The names of services: those of s.Services and those only depended on.
SvcNames == {"a", "b", "c"}

\* The stacks: any services, each depending on any names.
Stacks ==
    UNION {[Services : {S}, DependsOn : [S -> SUBSET SvcNames]] : S \in SUBSET SvcNames}

\* s.Services[svcName].DependsOn
DependsOnOf(s, svcName) ==
    IF svcName \in s.Services THEN s.DependsOn[svcName] ELSE {}

RECURSIVE dfs(_, _, _, _)
RECURSIVE dfsRange(_, _, _, _, _)

\* Mutant of dfsRange: a dependency that is in the stack is passed over.
dfsRange_NoBackEdge(s, svcName, rest, visited, stack) ==
    IF rest = {}
    THEN {[found |-> FALSE, visited |-> visited, stack |-> stack \ {svcName}]}
    ELSE UNION {
           IF dependentSvc \notin visited
           THEN UNION {
                  IF o.found THEN {o}
                  ELSE dfsRange(s, svcName, rest \ {dependentSvc}, o.visited, o.stack)
                  : o \in dfs(s, dependentSvc, visited, stack)}
           ELSE dfsRange(s, svcName, rest \ {dependentSvc}, visited, stack)
           : dependentSvc \in rest}

\* dfs: the range over svc.DependsOn, with the dependencies in rest still to
\* come, and the statements after it.
dfsRange(s, svcName, rest, visited, stack) ==
    IF rest = {}
    THEN {[found |-> FALSE, visited |-> visited, stack |-> stack \ {svcName}]}
    ELSE UNION {
           IF dependentSvc \notin visited
           THEN UNION {
                  IF o.found THEN {o}
                  ELSE dfsRange(s, svcName, rest \ {dependentSvc}, o.visited, o.stack)
                  : o \in dfs(s, dependentSvc, visited, stack)}
           ELSE IF dependentSvc \in stack
           THEN {[found |-> TRUE, visited |-> visited, stack |-> stack]}
           ELSE dfsRange(s, svcName, rest \ {dependentSvc}, visited, stack)
           : dependentSvc \in rest}

\* dfs(s, svcName, visited, stack): the results it can have
dfs(s, svcName, visited, stack) ==
    IF svcName \notin visited
    THEN dfsRange(s, svcName, DependsOnOf(s, svcName),
                  visited \cup {svcName}, stack \cup {svcName})
    ELSE {[found |-> FALSE, visited |-> visited, stack |-> stack \ {svcName}]}

\* The orders in which a range over a map can yield the keys in S.
Orders(S) ==
    {q \in [1..Cardinality(S) -> S] : \A i, j \in 1..Cardinality(S) : q[i] = q[j] => i = j}

InitDc ==
    /\ UpInit /\ deployment = "dev" /\ FwdIdle /\ SyIdle /\ ShIdle /\ ProgIdle /\ TrIdle /\ BnIdle /\ FwIdle /\ GcIdle /\ RlIdle /\ FxIdle /\ MnIdle /\ CcIdle /\ WrIdle /\ LhIdle
    /\ dcStack \in Stacks
    /\ dcPc = "loop"
    /\ dcTodo = dcStack.Services
    /\ dcVisited = {}
    /\ dcInStack = {}
    /\ dcCycle = <<>>

\* getDependentCyclic: the range over s.Services yields a name and dfs is
\* called on it
DcDfs ==
    /\ dcPc = "loop"
    /\ \E svcName \in dcTodo :
         \E o \in dfs(dcStack, svcName, dcVisited, dcInStack) :
            /\ dcVisited' = o.visited
            /\ dcInStack' = o.stack
            /\ dcTodo' = dcTodo \ {svcName}
            /\ dcPc' = IF o.found THEN "collect" ELSE "loop"
    /\ UNCHANGED <<notDc, dcStack, dcCycle>>

\* getDependentCyclic: dfs has returned true: the names in the stack are
\* appended in the order the range yields them, and the list is returned
DcCollect ==
    /\ dcPc = "collect"
    /\ dcCycle' \in Orders(dcInStack)
    /\ dcPc' = "returned"
    /\ UNCHANGED <<notDc, dcStack, dcTodo, dcVisited, dcInStack>>

\* getDependentCyclic: the range has ended: the empty list is returned
DcReturnEmpty ==
    /\ dcPc = "loop"
    /\ dcTodo = {}
    /\ dcPc' = "returned"
    /\ UNCHANGED <<notDc, dcStack, dcTodo, dcVisited, dcInStack, dcCycle>>

NextDc == DcDfs \/ DcCollect \/ DcReturnEmpty

SpecDc == InitDc /\ [][NextDc]_vars

----------------------------------------------------------------------------
(***************************************************************************)
(* waitUntilRunning of `pipeline deploy --wait`: a ticker of one second    *)
(* polls the pipeline, a ticker of the timeout ends the wait.              *)
(* time.NewTicker panics when its duration is not positive.                *)
(***************************************************************************)

\* Seconds followed.
MaxTicks == 33

\* The polls with status error that are let pass.
MaxErrorPolls == 30

\* The timeouts given, in seconds: zero, a short one, and one longer than
\* the polls followed.
Timeouts == {0, 2, MaxTicks + 1}

\* What a poll can find: an error of okteto.GetPipelineByName or a status.
PollOutcomes == {"notFound", "apiError", "deployed", "running", "error", "progressing"}

\* Mutant of TooManyErrors: the thirtieth poll with status error is enough.
TooManyErrors_AtThreshold(n) == n >= MaxErrorPolls

\* attempts > 30
TooManyErrors(n) == n > MaxErrorPolls

InitWr ==
    /\ UpInit /\ deployment = "dev" /\ FwdIdle /\ SyIdle /\ ShIdle /\ ProgIdle /\ TrIdle /\ BnIdle /\ FwIdle /\ GcIdle /\ RlIdle /\ FxIdle /\ MnIdle /\ CcIdle /\ DcIdle /\ LhIdle
    /\ wrTimeout \in Timeouts
    /\ wrPc = "start"
    /\ wrTicks = 0
    /\ attempts = 0
    /\ wrSeen = [polls |-> 0, error |-> 0, other |-> 0, last |-> "none"]
    /\ wrResult = "none"

\* t := time.NewTicker(1 * time.Second); to := time.NewTicker(timeout)
WrNewTickers ==
    /\ wrPc = "start"
    /\ wrPc' = IF wrTimeout <= 0 THEN "panic" ELSE "select"
    /\ UNCHANGED <<notWr, wrTimeout, wrTicks, attempts, wrSeen, wrResult>>

\* a second passes
WrTick ==
    /\ wrPc = "select"
    /\ wrTicks < MaxTicks
    /\ wrTicks' = wrTicks + 1
    /\ UNCHANGED <<notWr, wrTimeout, wrPc, attempts, wrSeen, wrResult>>

\* case <-to.C
WrTimedOut ==
    /\ wrPc = "select"
    /\ wrTicks >= wrTimeout
    /\ wrResult' = "didn't finish"
    /\ wrPc' = "returned"
    /\ UNCHANGED <<notWr, wrTimeout, wrTicks, attempts, wrSeen>>

\* case <-t.C: the pipeline is looked up and its status examined
WrPoll ==
    /\ wrPc = "select"
    /\ wrTicks >= 1
    /\ wrSeen.polls < wrTicks
    /\ \E p \in PollOutcomes :
         CASE p = "notFound" ->
                /\ wrResult' = "nil" /\ wrPc' = "returned"
                /\ wrSeen' = [wrSeen EXCEPT !.polls = @ + 1, !.last = p]
                /\ UNCHANGED attempts
           [] p = "apiError" ->
                /\ wrResult' = "failed to get pipeline" /\ wrPc' = "returned"
                /\ wrSeen' = [wrSeen EXCEPT !.polls = @ + 1, !.last = p]
                /\ UNCHANGED attempts
           [] p \in {"deployed", "running"} ->
                /\ wrResult' = "nil" /\ wrPc' = "returned"
                /\ wrSeen' = [wrSeen EXCEPT !.polls = @ + 1, !.last = p]
                /\ UNCHANGED attempts
           [] p = "error" ->
                /\ attempts' = attempts + 1
                /\ wrSeen' = [wrSeen EXCEPT !.polls = @ + 1, !.error = @ + 1, !.last = p]
                /\ IF TooManyErrors(attempts')
                   THEN wrResult' = "failed" /\ wrPc' = "returned"
                   ELSE UNCHANGED <<wrResult, wrPc>>
           [] OTHER ->
                /\ wrSeen' = [wrSeen EXCEPT !.polls = @ + 1, !.other = @ + 1, !.last = p]
                /\ UNCHANGED <<attempts, wrResult, wrPc>>
    /\ UNCHANGED <<notWr, wrTimeout, wrTicks>>

NextWr == WrNewTickers \/ WrTick \/ WrTimedOut \/ WrPoll

SpecWr == InitWr /\ [][NextWr]_vars

----------------------------------------------------------------------------
(***************************************************************************)
(* The handler of the login callback (pkg/cmd/login/browser.go:            *)
(* Handler.handle).  Each request is served by a goroutine of its own; a   *)
(* send on a.response or a.errChan is a message for the login command.     *)
(***************************************************************************)

\* Callback requests followed.
MaxRequests == 2

Requests == 1..MaxRequests

\* a.state, the state the login command generated
HandlerState == "s1"

\* The queries a request can carry.
Queries == [code : {"c1", "c2"}, state : {HandlerState, "s2", ""}]

InitLh ==
    /\ UpInit /\ deployment = "dev" /\ FwdIdle /\ SyIdle /\ ShIdle /\ ProgIdle /\ TrIdle /\ BnIdle /\ FwIdle /\ GcIdle /\ RlIdle /\ FxIdle /\ MnIdle /\ CcIdle /\ DcIdle /\ WrIdle
    /\ lhReq = [r \in Requests |-> "none"]
    /\ lhPc = [r \in Requests |-> "none"]
    /\ response = <<>>
    /\ errChan = <<>>
    /\ lhStatus = [r \in Requests |-> <<>>]

\* a request arrives: code and state are read from its query
LhRequest(r) ==
    /\ lhPc[r] = "none"
    /\ \E q \in Queries : lhReq' = [lhReq EXCEPT ![r] = q]
    /\ lhPc' = [lhPc EXCEPT ![r] = "check"]
    /\ UNCHANGED <<notLh, response, errChan, lhStatus>>

\* a.state != s
StateMismatch(s) == HandlerState # s

\* if a.state != s { a.errChan <- ...; w.WriteHeader(400); return }
LhCheckState(r) ==
    /\ lhPc[r] = "check"
    /\ IF StateMismatch(lhReq[r].state)
       THEN /\ errChan' = Append(errChan, [req |-> r, err |-> "Invalid request state"])
            /\ lhStatus' = [lhStatus EXCEPT ![r] = Append(@, "400")]
            /\ lhPc' = [lhPc EXCEPT ![r] = "done"]
       ELSE /\ lhPc' = [lhPc EXCEPT ![r] = "write"]
            /\ UNCHANGED <<errChan, lhStatus>>
    /\ UNCHANGED <<notLh, lhReq, response>>

\* if _, err := w.Write(loginHTML); err != nil { a.errChan <- ...;
\* w.WriteHeader(500) }
LhWrite(r) ==
    /\ lhPc[r] = "write"
    /\ \/ /\ lhStatus' = [lhStatus EXCEPT ![r] = Append(@, "page")]
          /\ UNCHANGED errChan
       \/ /\ errChan' = Append(errChan, [req |-> r, err |-> "Failed to write to the response"])
          /\ lhStatus' = [lhStatus EXCEPT ![r] = Append(@, "500")]
    /\ lhPc' = [lhPc EXCEPT ![r] = "send"]
    /\ UNCHANGED <<notLh, lhReq, response>>

\* a.response <- code
LhSendCode(r) ==
    /\ lhPc[r] = "send"
    /\ response' = Append(response, [req |-> r, code |-> lhReq[r].code])
    /\ lhPc' = [lhPc EXCEPT ![r] = "done"]
    /\ UNCHANGED <<notLh, lhReq, errChan, lhStatus>>

NextLh ==
    \E r \in Requests :
        LhRequest(r) \/ LhCheckState(r) \/ LhWrite(r) \/ LhSendCode(r)

SpecLh == InitLh /\ [][NextLh]_vars

----------------------------------------------------------------------------
\* The place of a state in the order of the activation.
Rank(s) ==
    CASE s = activating -> 1
      [] s = starting -> 2
      [] s = attaching -> 3
      [] s = pulling -> 4
      [] s = startingSync -> 5
      [] s = synchronizing -> 6
      [] s = ready -> 7
      [] OTHER -> 0

\* Activate leaves position pc by a step of its own (the process has not exited).
Leaves(pc) == actPc = pc /\ actPc' \notin {pc, "exited"}

\* runCommand of the current cycle has written `ready`.
ReachedReady == cycle > 0 /\ runCmd[cycle] \in {"exec", "done"}

\* C1: within one cycle a write to the state file never replaces a state by
\* an earlier one of the order activating, starting, attaching, pulling,
\* startingSync, synchronizing, ready (failed may replace any).
C1_StateNeverRegresses ==
    [][(/\ stateFile' # stateFile
        /\ writtenIn' = writtenIn
        /\ stateFile # failed /\ stateFile' # failed)
       => Rank(stateFile') >= Rank(stateFile)]_vars

\* C2: in every cycle runCommand starts only after cleanCommand of the same
\* cycle has completed.
C2_CleanBeforeRun ==
    \A c \in Cycles :
        runCmd[c] \in {"start", "exec", "done"} => cleanCmd[c] = "done"

\* C3: the outcomes of the wait: nil on Running ends the activation with nil on
\* Exit; an error on Running leads to reconnect when the pod is gone and
\* otherwise to exit with CommandFailed; a disconnect leads to reconnect; a
\* message on ErrChan is consumed and the wait goes on.
C3_WaitOutcomes ==
    [][/\ Leaves("wait") =>
            \/ /\ Running[cycle] # <<>>
               /\ Running'[cycle] = Tail(Running[cycle])
               /\ prevError' = IF Head(Running[cycle]) = "nil" THEN "nil"
                                                              ELSE ErrCommandFailed
            \/ /\ Disconnect[cycle]
               /\ Running' = Running
               /\ prevError' = ErrLostConnection
       /\ (actPc = "wait" /\ actPc' # "exited" /\ ErrChan'[cycle] < ErrChan[cycle])
            => actPc' = "wait"
       /\ Leaves("decide") =>
            CASE prevError = "nil" ->
                   actPc' = "returned" /\ Exit' = Append(Exit, "nil")
              [] prevError = ErrCommandFailed ->
                   IF podExists'
                   THEN actPc' = "returned" /\ Exit' = Append(Exit, ErrCommandFailed)
                   ELSE actPc' = "loop" /\ Exit' = Exit
              [] prevError = ErrLostConnection ->
                   actPc' = "loop" /\ Exit' = Exit
              [] OTHER -> FALSE]_vars

\* A command error was received while the pod was gone: Activate reconnects.
C3_Witness ==
    /\ actPc = "loop" /\ cycle = 1
    /\ prevError = ErrCommandFailed /\ ~podExists
    /\ runCmd[1] = "done" /\ Exit = <<>>

\* C4 as stated: once the cycle has reached ready, Activate starts another
\* cycle only after LostConnection.
C4_OnlyLostConnectionReconnects ==
    [][(actPc = "decide" /\ ReachedReady /\ actPc' = "loop")
       => prevError = ErrLostConnection]_vars

\* C4, amended: after the wait Activate starts another cycle exactly when the
\* outcome is LostConnection, or CommandFailed with the pod gone; with every
\* other outcome it sends the outcome on Exit and returns.
C4_ReconnectCauses ==
    [][Leaves("decide") =>
         IF prevError = ErrLostConnection
            \/ (prevError = ErrCommandFailed /\ ~podExists')
         THEN actPc' = "loop" /\ Exit' = Exit /\ ~ctxLive'[cycle]
         ELSE actPc' = "returned" /\ Exit' = Append(Exit, prevError)]_vars

\* The cycle reached ready, the command failed, the pod still exists:
\* Activate has sent CommandFailed on Exit and returned.
C4_Witness ==
    /\ actPc = "returned" /\ ReachedReady
    /\ prevError = ErrCommandFailed /\ podExists
    /\ Exit = <<ErrCommandFailed>>

\* C5: on a reconnect attempt that finds the deployment missing, or no longer
\* in dev mode, the activation exits with NotDevDeployment.
C5_NotDevDeploymentOnRetry ==
    [][/\ (retry /\ Leaves("getDeployment")
           /\ deployment' = "absent")
          => (actPc' = "returned" /\ Exit' = Append(Exit, ErrNotDevDeployment))
       /\ (retry /\ Leaves("dm_devcheck") /\ ~IsDevModeOn(d))
          => (actPc' = "returned" /\ Exit' = Append(Exit, ErrNotDevDeployment))]_vars

\* C6: for every cycle that opened a cancellation scope shutdown() runs exactly
\* once: never twice, and once RunUp has returned never zero times.
C6_ShutdownExactlyOnce ==
    /\ \A c \in Cycles : shutdowns[c] <= 1
    /\ runPc = "done" => \A c \in 1..cycle : shutdowns[c] = 1

\* C7: after RunUp has written failed, no other state is written.
C7_FailedIsTerminal ==
    [][stateFile = failed => stateFile' = failed]_vars

\* C8 as stated: on final exit failed has been written by RunUp exactly when
\* the success flag is false.
C8_FailedIffNotSuccess ==
    runPc = "done" => (wroteFailed <=> ~success)

\* C8, amended: on final exit failed has been written by RunUp exactly when
\* RunUp received a non-nil error on Exit (not after nil, not after Ctrl-C),
\* whatever the success flag.
C8_FailedIffExitError ==
    runPc = "done" => (wroteFailed <=> runErr \notin {"ctrlc", "nil"})

\* RunUp has returned after an error on Exit of an activation that had
\* succeeded: failed was written.
C8_Witness ==
    /\ runPc = "done" /\ success
    /\ runErr = ErrCommandFailed /\ wroteFailed

C10_LostConnectionClosesAll ==
    [][\A t \in Forwards :
         (fwd[t] # "lost" /\ fwd'[t] = "lost") =>
            /\ \A u \in Forwards : ~Open(u)'
            /\ Disconnect'[cycle]]_vars

\* C11: on Unix, once every activation's Run on the home has returned nil,
\* exactly one synchroniser is alive for the home and every other
\* synchroniser started on it has been sent the interrupt.
C11_OneChildPerHome ==
    (goos = "unix" /\ \A a \in Runs : syPc[a] = "running") =>
        \E s \in Runs :
            /\ alive[s]
            /\ \A p \in Pids \ {s} : ~alive[p]
            /\ \A a \in Runs \ {s} : signalled[a]

\* C12: on Unix, when Run's cleanupDaemon finds a PID file that names a live
\* process it sends the interrupt, and Run starts the new child only after
\* that process has exited; when the file names a dead process Run goes on
\* to start the child.
C12_SignalWaitThenSpawn ==
    [][\A a \in Runs : (goos = "unix" /\ syIn[a] = "Run") =>
         /\ (syPc[a] = "signal" /\ syPc'[a] # "signal" /\ alive[syPid[a]])
              => signalled'[syPid[a]]
         /\ (syPc[a] = "signal" /\ syPc'[a] # "signal" /\ ~alive[syPid[a]])
              => syPc'[a] = "start"
         /\ (syPc[a] = "start" /\ syPc'[a] = "writePid" /\ sySent[a])
              => ~alive[syPid[a]]]_vars

\* The four steps the shutdown sequence is said to consist of.
IsSequenceStep(s) == s \in {"fwd", "sy", "tty", "ssh"}

\* C13: after Ctrl-C in an activation that has a forwarder, a synchroniser,
\* a terminal and an SSH entry, when RunUp has returned, the steps performed
\* are stop forwards, stop synchroniser, restore TTY, remove SSH entry, in
\* this order, each of them once.
C13_ShutdownOrder ==
    (/\ shPc = "returned" /\ shCause = "ctrlc"
     /\ shCfg.assigned = ForwarderSet /\ shCfg.remote /\ shCfg.term) =>
        SelectSeq(shLog, IsSequenceStep) = <<"fwd", "sy", "tty", "ssh">>

\* The steps shutdown() has to attempt, given what the activation assigned.
Due ==
    (IF shCfg.assigned >= CancelSet THEN {"cancel"} ELSE {})
    \cup (IF shCfg.remote THEN {"ssh"} ELSE {})
    \cup (IF shCfg.assigned >= SySet THEN {"sy"} ELSE {})
    \cup (IF shCfg.assigned >= ForwarderSet THEN {"fwd"} ELSE {})

\* C14: RunUp returns the error received on Exit, or nil after Ctrl-C,
\* whatever step of shutdown failed, and every step that was due has been
\* attempted.
C14_ShutdownNeverMasks ==
    shPc = "returned" =>
        /\ shCause \in {"ctrlc", shExit}
        /\ shRet = IF shCause = "ctrlc" THEN "nil" ELSE shCause
        /\ \A s \in Due : \E i \in 1..Len(shLog) : shLog[i] = s

\* RunUp has returned the command's error although the removal of the SSH
\* entry and the stop of the synchroniser both failed; the forwarder was
\* stopped after them.
C14_Witness ==
    /\ shPc = "returned"
    /\ shFail = {"ssh", "sy"}
    /\ shCause = ErrCommandFailed /\ shRet = ErrCommandFailed
    /\ shLog[Len(shLog)] = "fwd"

\* C15: up.Pod is assigned only when the pod monitor has returned a ready pod,
\* with the pod of the current cycle; and when runCommand, the forwarder
\* start or a pod-exists check uses up.Pod, its value was assigned in the
\* current cycle.
C15_PodOfCurrentCycle ==
    [][/\ Pod' # Pod => (actPc = "dm_monitor" /\ actPc' = "dm_forward" /\ Pod' = cycle)
       /\ \A c \in Cycles :
            (runCmd[c] = "start" /\ runCmd'[c] = "exec") => Pod = cycle
       /\ (Leaves("dm_forward") \/ Leaves("sync_failed") \/ Leaves("decide"))
            => Pod = cycle]_vars

\* C16: the values the progress reader renders never decrease, and a value
\* received that is not greater than the last rendered one is not rendered.
C16_ProgressMonotone ==
    [][/\ \A i \in 1..Len(rendered') : \A j \in i..Len(rendered') :
            rendered'[i] <= rendered'[j]
       /\ (received' # received /\ rendered # <<>>
           /\ received'[Len(received')] <= rendered[Len(rendered)])
            => rendered' = rendered]_vars

\* A drop from 2 to 1 was received and discarded; the later 3 was rendered.
C16_Witness ==
    /\ received = <<2, 1, 3>>
    /\ rendered = <<2, 3>>

C20_CollisionBeforeMutation ==
    [][(Leaves("dm_forward") /\ Exit' = Append(Exit, ForwardAddError)) =>
          /\ actPc' = "returned"
          /\ objects = {}
          /\ deployment # "dev"]_vars

\* C18: a deployment translated twice with the same manifest equals the
\* deployment translated once.
C18_TranslateIdempotent ==
    trOps = <<"translate", "translate">> => trD = Translate(trOrig, trDev)

Range(s) == {s[i] : i \in 1..Len(s)}

\* All forwards of the cycle have been added to the forwarder.
Registered == bnPc \in {"start", "ssh", "ready"}

\* C21: in every cycle the user forwards are added before the
\* synchroniser's and the synchroniser's cluster port is added last; a
\* failure on a user forward does not end the activation, only one on the
\* synchroniser port does.
C21_SyncPortLast ==
    /\ Registered =>
        /\ ports[Len(ports)].Remote = ClusterPort
        /\ \A i, j \in 1..Len(ports) :
              /\ ports[i].Remote \notin {ClusterPort, GUIPort}
              /\ ports[j].Remote \in {ClusterPort, GUIPort}
              => i < j
    /\ bnPc = "failed" => bnFail # "forward"

\* C22: the forwards added in a cycle are the declared ones, the
\* synchroniser's two and, exactly when Dev.RemoteModeEnabled holds (a
\* remote port or reverse forwards), the one from the remote port to the
\* pod's SSH port.
C22_BundleExact ==
    Registered =>
        Range(ports) =
            Range(declared)
            \cup {[Local |-> Sy.RemotePort, Remote |-> ClusterPort],
                  [Local |-> Sy.RemoteGUIPort, Remote |-> GUIPort]}
            \cup (IF RemoteModeEnabled(Dev)
                  THEN {[Local |-> IF Dev.RemotePort = 0 THEN DefaultRemotePort
                                   ELSE Dev.RemotePort,
                         Remote |-> SSHPort]}
                  ELSE {})

\* C23: with remote mode enabled, an activated cycle has the SSH entry of
\* the manifest's remote port, and after shutdown the entry is gone.
C23_SshEntryOfRemotePort ==
    /\ bnPc = "ready" /\ remoteModeEnabled(Dev) => sshEntry = {Dev.RemotePort}
    /\ bnPc = "done" => sshEntry = {}

\* A number written as %d writes it: no leading zero.
Canonical(seg) == IsNumber(seg) /\ Itoa(Atoi(seg)) = seg

C26_LabelsNeverCreate ==
    gcPc = "returned" /\ gcIn.labels /\ IsNotFound(gcIn.g) =>
        /\ gcErr \in {"UserError:labels", ErrNotFound, "k8sNotFound"}
        /\ gcD = "none"
        /\ ~gcCreate
        /\ ~gcAsked

\* Labels, no deployment, and everything asking for a deployment to be made.
C26_Witness ==
    /\ gcPc = "returned"
    /\ gcIn.labels /\ gcIn.g = ErrNotFound /\ ~gcIn.retry
    /\ gcIn.envAuto /\ gcIn.autoDeploy /\ gcIn.answer
    /\ gcErr = "UserError:labels"

\* C27: on the first attempt, with no deployment, no labels and auto-deploy
\* asked for, the result is a sandbox to be created, with the auto-create
\* annotation and, for an empty image, the default image; a deployment that
\* exists is never replaced by a sandbox.
C27_SandboxOnAutoDeploy ==
    /\ /\ gcPc = "returned" /\ ~gcIn.retry /\ IsNotFound(gcIn.g)
       /\ ~gcIn.labels /\ (gcIn.envAuto \/ gcIn.autoDeploy)
       => /\ gcErr = "nil"
          /\ gcCreate
          /\ gcD.annotations[OktetoAutoCreateAnnotation] = "true"
          /\ gcD.image = IF gcIn.image = "" THEN DefaultImage ELSE gcIn.image
    /\ gcPc = "returned" /\ deployment # "absent" =>
          /\ ~gcCreate
          /\ gcD \in {"none", deployment}

\* A sandbox was made for a manifest without image.
C27_Witness ==
    /\ gcPc = "returned"
    /\ gcIn.image = "" /\ gcIn.autoDeploy /\ ~gcIn.envAuto
    /\ gcCreate
    /\ gcD.image = DefaultImage

\* The rule has the variable of the marker path in its environment.
HasMarkerVariable(rule) ==
    \E i \in 1..Len(rule.Environment) :
        rule.Environment[i].Name = oktetoMarkerPathVariable

\* The rule mounts the synchroniser's directory.
HasSyncthingVolume(rule) ==
    \E i \in 1..Len(rule.Volumes) :
        rule.Volumes[i].MountPath = oktetoSyncthingMountPath

\* C28: the rule of the manifest has health checks off, the marker
\* variable, the command start.sh, and the argument -r exactly when a remote
\* port or reverse forwards are set; the rule of a service has health checks
\* on, no marker variable, no synchroniser volume, and the command of the
\* service.
C28_TranslationRules ==
    /\ "main" \in DOMAIN rules =>
        LET rule == rules["main"] IN
        /\ ~rule.Healthchecks
        /\ HasMarkerVariable(rule)
        /\ rule.Command = <<"/var/okteto/bin/start.sh">>
        /\ rule.Args = <<"-r">> <=> (rlMain.RemotePort > 0 \/ rlMain.RemoteForward)
        /\ rule.Args \in {<<"-r">>, <<>>}
    /\ "service" \in DOMAIN rules =>
        LET rule == rules["service"] IN
        /\ rule.Healthchecks
        /\ ~HasMarkerVariable(rule)
        /\ rule.Marker = ""
        /\ ~HasSyncthingVolume(rule)
        /\ rule.Command = rlService.Command

\* Both rules were made for a manifest with reverse forwards and no remote
\* port, and a service with a command.
C28_Witness ==
    /\ DOMAIN rules = {"main", "service"}
    /\ rlMain.RemotePort = 0 /\ rlMain.RemoteForward
    /\ rules["main"].Args = <<"-r">>
    /\ rules["service"].Command = <<"run">>

\* The directory of the manifest, from the root: the working directory
\* before it when the path of the manifest is relative.
ManifestDir ==
    [abs |-> TRUE,
     elems |-> (IF originalPath.abs THEN <<>> ELSE wd.elems)
               \o SubSeq(originalPath.elems, 1, Len(originalPath.elems) - 1)]

\* C29: fixPath leaves an absolute source as it is, makes a relative source
\* the cleaned path of the source under the directory of the manifest, and
\* applied again changes nothing.
C29_FixPath ==
    fixed > 0 =>
        /\ given.abs => Source = given
        /\ ~given.abs =>
              Source = Clean([abs |-> TRUE, elems |-> ManifestDir.elems \o given.elems])
        /\ Source = once

\* A relative source under a relative manifest path was fixed twice.
C29_Witness ==
    /\ fixed = MaxFix
    /\ ~given.abs /\ given.elems = <<"..", "k8">>
    /\ ~originalPath.abs /\ originalPath.elems = <<"cnd", "cnd.yml">>
    /\ Source = [abs |-> TRUE, elems |-> wd.elems \o <<"k8">>]

\* C30: the result of the runCommand started in cycle k is sent on the
\* Running channel of cycle k, and the monitor started in cycle k signals
\* the Disconnect channel of cycle k: nothing of an earlier cycle arrives on
\* the channels of a later one.
C30_ChannelsOfOwnCycle ==
    [][\A c \in Cycles, ch \in Cycles :
          /\ (runCmd[c] = "exec" /\ runCmd'[c] = "done"
              /\ Running'[ch] # Running[ch]) => ch = c
          /\ (monitor[c] = "polling" /\ monitor'[c] = "done"
              /\ Disconnect'[ch] # Disconnect[ch]) => ch = c]_vars

\* C31: the monitor is started only when the folder type has been switched
\* to sendreceive and the restart of the synchroniser has returned, and it
\* never polls a synchroniser that is restarting.
C31_MonitorAfterRestart ==
    [][/\ (mnMonitor = "none" /\ mnMonitor' = "polling")
            => (Type = "sendreceive" /\ mnRestart = "done")
       /\ polls' # polls => mnRestart # "running"]_vars

\* C32: in a cycle after an activation has completed (up.retry), a lookup
\* that finds no deployment makes no sandbox and asks nothing:
\* getCurrentDeployment returns the error of the lookup, and Activate sends
\* it on up.Exit and returns.
C32_RetryNeverCreates ==
    /\ gcPc \in {"returned", "exited", "devMode"} /\ gcIn.retry /\ gcIn.g # "found" =>
          /\ gcErr = gcIn.g
          /\ gcD = "none"
          /\ ~gcCreate
          /\ ~gcAsked
          /\ gcPc # "devMode"
    /\ gcPc = "exited" /\ gcIn.retry /\ gcIn.g # "found" => gcExit = <<gcIn.g>>

\* A reconnect cycle found no deployment, with no labels and a deployment
\* asked for in every way, and Activate has exited with the lookup's error.
C32_Witness ==
    /\ gcPc = "exited"
    /\ gcIn.retry /\ gcIn.g = ErrNotFound /\ ~gcIn.labels
    /\ gcIn.envAuto /\ gcIn.autoDeploy /\ gcIn.answer
    /\ gcExit = <<ErrNotFound>>

\* C33: Activate returns exactly when it sends a value on up.Exit, it finds
\* the buffer of up.Exit empty when it sends, it does nothing once it has
\* returned, and RunUp receives from up.Exit at most once: an execution of
\* Activate that ends has sent one value, after any number of cycles.
C33_OneExitValue ==
    [][runPc' # "done" =>
         /\ (actPc # "returned" /\ actPc' = "returned")
               <=> (Len(Exit') = Len(Exit) + 1)
         /\ Len(Exit') > Len(Exit) => Exit = <<>>
         /\ actPc = "returned" => (actPc' = "returned" /\ Len(Exit') <= Len(Exit))
         /\ Len(Exit') < Len(Exit) => (runErr = "none" /\ runErr' = Head(Exit))]_vars

\* Activate has returned in its second cycle and its one value waits in the
\* buffer of up.Exit for RunUp.
C33_Witness ==
    /\ actPc = "returned" /\ cycle = 2 /\ retry
    /\ Len(Exit) = 1
    /\ runPc = "select"

\* C34: when the interrupt came while Activate was inside devMode or sync
\* and RunUp's shutdown has completed, no synchroniser process is alive, no
\* forward is open, and Activate has started neither since.
C34_NothingLeftAfterShutdown ==
    ShutdownCompleted =>
        /\ ccChild # "alive"
        /\ ccForwarder # "open"
        /\ ccLate = {}

\* C35: once the context is cancelled, every started call of
\* CNDPortForward.Start eventually has closed its stop channel and returned
\* (wg.Done is deferred), whatever became of its tunnel.
C35_StartReturnsAfterCancel ==
    \A t \in Forwards :
        (~fwdCtx /\ tunnel[t] # "none") ~> (tunnel[t] = "returned" /\ ~StopChan[t])

\* The names reached from n along one or more dependencies.
ReachedFrom(s, n) ==
    LET one(X) == X \cup UNION {DependsOnOf(s, m) : m \in X}
    IN  one(one(one(DependsOnOf(s, n))))

\* The service n lies on a cycle of dependencies.
OnCycle(s, n) == n \in s.Services /\ n \in ReachedFrom(s, n)

\* The set C of services is a cycle: each depends on another one of C (or on
\* itself, when it is alone) and each of them reaches all of them within C.
IsCycle(s, C) ==
    LET inC == [Services |-> C, DependsOn |-> [m \in C |-> s.DependsOn[m] \cap C]]
    IN  /\ C # {} /\ C \subseteq s.Services
        /\ \A m \in C : ReachedFrom(inC, m) = C

C37_ListIsCycle ==
    (dcPc = "returned" /\ dcCycle # <<>>) =>
        /\ \A i \in 1..Len(dcCycle) : OnCycle(dcStack, dcCycle[i])
        /\ \E C \in SUBSET dcStack.Services :
              IsCycle(dcStack, C) /\ C \subseteq {dcCycle[i] : i \in 1..Len(dcCycle)}

\* C38: a poll of waitUntilRunning that sees the status deployed or running
\* returns success at once; the failure of the pipeline is returned only by
\* a poll that sees the status error when more than 30 polls have seen it;
\* a poll that sees another status returns nothing and leaves the count,
\* which is never reset.
C38_PollOutcome ==
    [][/\ wrSeen'.polls = wrSeen.polls + 1 =>
            /\ wrSeen'.last \in {"deployed", "running"}
                  => (wrResult' = "nil" /\ wrPc' = "returned")
            /\ wrSeen'.last = "progressing"
                  => (attempts' = attempts /\ wrPc' = wrPc /\ wrResult' = wrResult)
            /\ attempts' = wrSeen'.error
       /\ (wrResult' = "failed" /\ wrResult # "failed") =>
            /\ wrSeen'.polls = wrSeen.polls + 1
            /\ wrSeen'.last = "error"
            /\ wrSeen'.error > MaxErrorPolls]_vars

\* The failure is returned at the thirty-first poll that saw the status
\* error, with polls that saw another status in between.
C38_Witness ==
    /\ wrPc = "returned" /\ wrResult = "failed"
    /\ wrSeen.error = MaxErrorPolls + 1
    /\ wrSeen.other >= 1

\* C39: with a timeout of zero the wait has no time limit: waitUntilRunning
\* goes on polling until a poll ends it, and never ends through the timeout.
C39_ZeroMeansNever ==
    wrTimeout = 0 =>
        /\ wrPc # "panic"
        /\ wrResult # "didn't finish"
        /\ wrPc = "returned" => wrSeen.polls >= 1

\* The messages on channel ch that the request r produced.
MessagesOf(ch, r) == {i \in 1..Len(ch) : ch[i].req = r}

\* C40: a callback request that has been handled has produced exactly one
\* message: its code on the response channel when its state matched and the
\* page was written, else an error on the error channel; a request whose
\* state does not match delivers no code, and no request delivers both.
C40_OneMessagePerRequest ==
    \A r \in Requests :
        /\ lhPc[r] = "done" =>
              /\ Cardinality(MessagesOf(response, r))
                   + Cardinality(MessagesOf(errChan, r)) = 1
              /\ MessagesOf(response, r) # {}
                   <=> (lhReq[r].state = HandlerState /\ lhStatus[r] = <<"page">>)
        /\ (lhPc[r] # "none" /\ lhReq[r].state # HandlerState)
              => MessagesOf(response, r) = {}
        /\ ~(MessagesOf(response, r) # {} /\ MessagesOf(errChan, r) # {})

\* The part that holds: a request with another state is answered with one
\* error and no code, whatever becomes of the other request.
MismatchDeliversNoCode ==
    \A r \in Requests :
        (lhPc[r] = "done" /\ lhReq[r].state # HandlerState) =>
            /\ MessagesOf(response, r) = {}
            /\ Cardinality(MessagesOf(errChan, r)) = 1
            /\ lhStatus[r] = <<"400">>

====
